---- MODULE Spec2Model ----
(***************************************************************************)
(* Energymanager backend: the OCPP 1.6 session handlers of                 *)
(* backend/ocpp_cs.py acting on models.state, and the control loop of      *)
(* backend/scheduler.py that computes and pushes charging setpoints.       *)
(*                                                                         *)
(* Units.  Python floats are modelled as fixed-point integers:             *)
(*   power   in W   (kW  * 1000), so round(x, 2) kW is a multiple of 10 W  *)
(*   energy  in Wh  (kWh * 1000), so round(x, 3) kWh is a whole Wh         *)
(*   current in 0.1 A steps after _round_to_0p1                            *)
(*   time of day in minutes, durations in minutes                          *)
(* Optional[T] is a sequence of length <= 1: None is <<>>, a value <<v>>.  *)
(***************************************************************************)
EXTENDS Integers, Sequences, FiniteSets, TLC

VARIABLES
    state,          \* models.STATE: cp_id -> ChargePointState (a dict: DOMAIN = keys)
    order,          \* insertion order of the keys of state (dict iteration order)
    cps,            \* handler registry (app.state.cps / cp_registry): connected cp ids
    last_push_kw,   \* scheduler.control_loop local: cp_id -> last pushed target
    loop,           \* control_loop position and the locals of the running tick
    hist,           \* history per cp_id (observation only, never read by the program)
    last,           \* the operation that made the latest step (observation only)
    cp_status,      \* main.cp_status: cp_id -> status dict of the query surface
    api,            \* the latest call of the query surface: what it sent and replied
    prices_cache,   \* scheduler.control_loop local: the latest price refresh
    energy_logs,    \* models.ENERGY_LOGS: cp_id -> list of (timestamp, kWh); followed by
                    \* on_meter_logged, the other specifications leave the log out
    conns           \* main.py: the running ocpp_ws tasks and the handler object each
                    \* cp_registry entry holds; followed by ocpp_ws_accept and
                    \* ocpp_ws_finally, elsewhere cps stands for the registry

vars == <<state, order, cps, last_push_kw, loop, hist, last, cp_status, api,
          prices_cache, energy_logs, conns>>

\* the variables of main.py's query surface
mainvars == <<cp_status, api>>

-----------------------------------------------------------------------------
(* Bounds of the model *)

MaxRegStep == 3
MaxRadStep == 40
\* minutes that pass between the tick's clock read and a later one
MaxDelay == 1
\* connections accepted for one charge-point identifier
MaxConns == 2

-----------------------------------------------------------------------------
(* Generic helpers *)

None == <<>>
Some(x) == <<x>>
IsSome(o) == o # <<>>
Val(o) == o[1]

Max(a, b) == IF a >= b THEN a ELSE b
Min(a, b) == IF a <= b THEN a ELSE b
Abs(a) == IF a >= 0 THEN a ELSE 0 - a

Range(s) == {s[i] : i \in 1..Len(s)}

CPs == {"cp1", "cp2", "cp3"}

-----------------------------------------------------------------------------
(* models.py *)

Modes == {"eco", "max", "off", "price", "manual"}

\* the dataclass defaults of phase_count and voltage_per_phase
phase_count == 3
voltage_per_phase == 230

ChargePointState(connected) ==
    [ connected              |-> connected,
      phase_count            |-> phase_count,
      voltage_per_phase      |-> voltage_per_phase,
      mode                   |-> "eco",
      target_kw              |-> 0,
      cp_status              |-> None,
      error_code             |-> None,
      soc                    |-> None,
      current_soc            |-> None,
      boost_enabled          |-> FALSE,
      boost_cutoff_local     |-> 420,
      boost_target_soc       |-> 100,
      boost_reached_notified |-> FALSE,
      energy_kwh_total       |-> None,
      tx_active              |-> FALSE,
      session_start_kwh_reg  |-> None,
      session_kwh            |-> None,
      session_est_end_at     |-> None ]

Known(cp) == cp \in DOMAIN state

-----------------------------------------------------------------------------
(* Observation variables *)

\* s:       meterStart of the latest StartTransaction, as sent
\* run:     "open" after StartTransaction while only MeterValues followed,
\*          "closed" once StopTransaction ended such a run, "none" otherwise
\* cur:     session_start_kwh_reg was set by the transaction that is active now
\* metered: an energy register was reported since the transaction became active
\* mails:   goal-reached notifications scheduled since boost was last enabled
\* acked:   the latest setpoint the charge point accepted
\* failed:  the latest push was not accepted and no pass has computed the record since
\* (acked and failed are kept by PushReturnObserved only)
\* recross: since the goal-reached mail of this boost activation, 1: a SoC below
\*          the boost target was reported, 2: and a later pass saw the goal reached
HistInit ==
    [ s |-> None, run |-> "none", cur |-> FALSE, metered |-> FALSE,
      mails |-> 0, acked |-> None, failed |-> FALSE, recross |-> 0 ]

\* op: the operation, cp: its charge point, arg: its meter value,
\* res: the outcome of a push, ran: the charge points a tick step computed
NoteStep(op, cp, arg, res) ==
    last' = [op |-> op, cp |-> cp, arg |-> arg, res |-> res]

Note(op, cp, arg) == NoteStep(op, cp, arg, "")

-----------------------------------------------------------------------------
(* Inputs: what a charge point may send *)

\* energy register readings in Wh, one of them negative
RegisterWh == {(k - 1) * 500 : k \in 0..MaxRegStep}

SocVals == {40, 80}

StatusVals == {"Available", "Charging", "charging"}

\* str.lower() on the strings the model uses
Lower(s) ==
    CASE s = "Charging" -> "charging"
      [] s = "Available" -> "available"
      [] s = "SoC" -> "soc"
      [] s = "Energy.Active.Import.Register" -> "energy.active.import.register"
      [] s = "Wh" -> "wh"
      [] s = "kWh" -> "kwh"
      [] s = "Percent" -> "percent"
      [] OTHER -> s

\* a sampled value: measurand, unit, value (None: not a number)
Sample(m, u, v) == [measurand |-> m, unit |-> u, value |-> v]

Samples ==
    {Sample("Energy.Active.Import.Register", "Wh", Some(r)) : r \in RegisterWh}
    \cup {Sample("Energy.Active.Import.Register", "kWh", Some(1))}
    \cup {Sample("SoC", "Percent", Some(80))}
    \cup {Sample("Energy.Active.Import.Register", "Wh", None)}
    \cup {Sample("", "", Some(2))}

\* a MeterValues batch: the sampled values of its meter_value entries, in order
Batches == {<<>>} \cup [1..1 -> Samples] \cup [1..2 -> Samples]

\* batches that report the state of charge only
SocBatches == {<<Sample("SoC", "Percent", Some(s))>> : s \in SocVals}

-----------------------------------------------------------------------------
(* ocpp_cs.py: MeterValues parsing *)

IsSocSample(meas, unit) ==
    \/ meas \in {"soc", "stateofcharge", "state_of_charge"}
    \/ (meas = "" /\ unit \in {"percent", "%"})

\* the measurands of the model that contain both "energy" and "import"
IsEnergySample(meas) ==
    meas \in {"energy.active.import.register", "energy.active.import"}

\* Wh of an energy sample: v / 1000 kWh if unit == "wh" else v kWh, floored at 0
EnergyOfSample(unit, v) ==
    IF unit = "wh" THEN Max(0, v) ELSE Max(0, v * 1000)

\* int(v) clamped to 0..100
SocOfSample(v) == Max(0, Min(100, v))

\* one pass of the inner loop body over sample i, on the locals (soc_found, energy_kwh)
ParseSample(acc, sv) ==
    LET meas == Lower(sv.measurand)
        unit == Lower(sv.unit)
    IN  IF sv.value = None
        THEN acc
        ELSE [ soc_found  |-> IF IsSocSample(meas, unit)
                              THEN Some(SocOfSample(Val(sv.value)))
                              ELSE acc.soc_found,
               energy_kwh |-> IF IsEnergySample(meas)
                              THEN Some(EnergyOfSample(unit, Val(sv.value)))
                              ELSE acc.energy_kwh ]

RECURSIVE ParseFrom(_, _, _)
ParseFrom(b, i, acc) ==
    IF i > Len(b) THEN acc ELSE ParseFrom(b, i + 1, ParseSample(acc, b[i]))

\* a measurand or unit that is a JSON number, not a string
NotAString == "<number>"

\* .lower() of line 148 or 149 raises AttributeError for this sample
SampleRaises(sv) == sv.measurand = NotAString \/ sv.unit = NotAString

\* The locals after the parsing loops.  An exception inside them is caught by
\* the handler's outer except (line 212), past the code that applies the
\* locals: nothing of the batch is applied.
ParseBatch(b) ==
    IF \E i \in 1..Len(b) : SampleRaises(b[i])
    THEN [soc_found |-> None, energy_kwh |-> None]
    ELSE ParseFrom(b, 1, [soc_found |-> None, energy_kwh |-> None])

\* session_kwh as on_meter and on_stop_tx compute it: round(max(0.0, reg - start), 3)
SessionKwhMut(reg, start) == reg - start
SessionKwh(reg, start) == Max(0, reg - start)

\* the record after on_meter has applied the parsed batch
MeterApplyAccum(st, p) ==
    [st EXCEPT
        !.current_soc = IF IsSome(p.soc_found) THEN p.soc_found ELSE @,
        !.soc = IF IsSome(p.soc_found) THEN p.soc_found ELSE @,
        !.energy_kwh_total = IF IsSome(p.energy_kwh) THEN p.energy_kwh ELSE @,
        !.session_kwh =
            IF IsSome(p.energy_kwh) /\ st.tx_active /\ IsSome(st.session_start_kwh_reg)
            THEN Some((IF IsSome(@) THEN Val(@) ELSE 0)
                      + SessionKwh(Val(p.energy_kwh), Val(st.session_start_kwh_reg)))
            ELSE @ ]
MeterApply(st, p) ==
    [st EXCEPT
        !.current_soc = IF IsSome(p.soc_found) THEN p.soc_found ELSE @,
        !.soc = IF IsSome(p.soc_found) THEN p.soc_found ELSE @,
        !.energy_kwh_total = IF IsSome(p.energy_kwh) THEN p.energy_kwh ELSE @,
        !.session_kwh =
            IF IsSome(p.energy_kwh) /\ st.tx_active /\ IsSome(st.session_start_kwh_reg)
            THEN Some(SessionKwh(Val(p.energy_kwh), Val(st.session_start_kwh_reg)))
            ELSE @ ]

-----------------------------------------------------------------------------
(* scheduler.py: constants and pure helpers of the control loop *)

MIN_KW == 3700
MAX_KW == 11000
RAD_CLOUDY == 200
RAD_SUNNY == 650
PUSH_DEADBAND_KW == 100
battery_kwh == 60
\* EFFICIENCY 0.92, in percent
efficiency == 92

\* no connection has been accepted yet: reg is the handler object of each
\* cp_registry entry (the number of its connection), tasks the running ocpp_ws
\* tasks, count the connections accepted so far per identifier
ConnsIdle ==
    [ reg |-> [c \in CPs |-> None], tasks |-> {}, count |-> [c \in CPs |-> 0] ]

\* prices_cache before the first refresh (times in minutes, prices in 0.001 ct/kWh)
PricesIdle == [ts |-> None, series |-> <<>>, median |-> None, cur |-> None]

\* the control loop asleep (or awaiting a provider), no tick in progress
LoopIdle ==
    [ pc |-> "sleep", cur |-> None, kw |-> 0, amps |-> 0,
      todo |-> <<>>, size |-> 0, sig |-> None ]

-----------------------------------------------------------------------------
(* Connection lifecycle (main.py ocpp_ws): the handler registry *)

Connect(cp) ==
    /\ cp \notin cps
    /\ cps' = cps \cup {cp}
    /\ UNCHANGED <<state, order, last_push_kw, loop, hist>>

Disconnect(cp) ==
    /\ cp \in cps
    /\ cps' = cps \ {cp}
    /\ UNCHANGED <<state, order, last_push_kw, loop, hist>>

-----------------------------------------------------------------------------
(* ocpp_cs.py: the OCPP message handlers of CentralSystem *)

\* the event loop runs a handler only while the control loop is suspended
\* (asleep, or awaiting the answer to a push)
Awaiting == loop.pc \in {"sleep", "push"}

on_boot(cp) ==
    /\ cp \in cps /\ Awaiting
    /\ IF Known(cp)
       THEN UNCHANGED <<state, order>>
       ELSE /\ state' = state @@ (cp :> ChargePointState(TRUE))
            /\ order' = Append(order, cp)
    /\ hist' = [hist EXCEPT ![cp].run = "none"]
    /\ UNCHANGED <<cps, last_push_kw, loop>>

on_heartbeat(cp) ==
    /\ cp \in cps /\ Awaiting
    /\ IF Known(cp)
       THEN state' = [state EXCEPT ![cp].connected = TRUE]
       ELSE UNCHANGED state
    /\ hist' = [hist EXCEPT ![cp].run = "none"]
    /\ UNCHANGED <<order, cps, last_push_kw, loop>>

on_status(cp, status) ==
    /\ cp \in cps /\ Awaiting
    /\ IF Known(cp)
       THEN /\ state' = [state EXCEPT
                 ![cp].connected = TRUE,
                 ![cp].cp_status = Some(status),
                 ![cp].tx_active = IF Lower(status) = "charging" THEN TRUE ELSE @]
            /\ hist' = [hist EXCEPT
                 ![cp].run = "none",
                 ![cp].metered = IF Lower(status) = "charging" /\ ~state[cp].tx_active
                                 THEN FALSE ELSE @]
       ELSE UNCHANGED <<state, hist>>
    /\ UNCHANGED <<order, cps, last_push_kw, loop>>

on_start_tx(cp, meter_start) ==
    /\ cp \in cps /\ Awaiting
    /\ LET st == IF Known(cp) THEN state[cp] ELSE ChargePointState(FALSE)
           st2 == [st EXCEPT
                     !.tx_active = TRUE,
                     !.session_start_kwh_reg = Some(Max(0, meter_start)),
                     !.session_kwh = Some(0)]
       IN  /\ state' = IF Known(cp) THEN [state EXCEPT ![cp] = st2]
                       ELSE state @@ (cp :> st2)
           /\ order' = IF Known(cp) THEN order ELSE Append(order, cp)
    /\ hist' = [hist EXCEPT ![cp].s = Some(meter_start),
                            ![cp].run = "open",
                            ![cp].cur = TRUE,
                            ![cp].metered = FALSE]
    /\ UNCHANGED <<cps, last_push_kw, loop>>

\* a StopTransaction that leaves the estimate / that also resets the target
StopKeepsEstimate(st, meter_stop) ==
    [st EXCEPT
        !.session_kwh =
            IF IsSome(st.session_start_kwh_reg)
            THEN Some(SessionKwh(Max(0, meter_stop), Val(st.session_start_kwh_reg)))
            ELSE @,
        !.tx_active = FALSE]
StopResetsTarget(st, meter_stop) ==
    [st EXCEPT
        !.session_kwh =
            IF IsSome(st.session_start_kwh_reg)
            THEN Some(SessionKwh(Max(0, meter_stop), Val(st.session_start_kwh_reg)))
            ELSE @,
        !.tx_active = FALSE,
        !.session_est_end_at = None,
        !.target_kw = 0]
\* the record after lines 107-114
StopApply(st, meter_stop) ==
    [st EXCEPT
        !.session_kwh =
            IF IsSome(st.session_start_kwh_reg)
            THEN Some(SessionKwh(Max(0, meter_stop), Val(st.session_start_kwh_reg)))
            ELSE @,
        !.tx_active = FALSE,
        !.session_est_end_at = None]

on_stop_tx(cp, meter_stop) ==
    /\ cp \in cps /\ Awaiting
    /\ IF Known(cp)
       THEN /\ state' = [state EXCEPT ![cp] = StopApply(@, meter_stop)]
            /\ hist' = [hist EXCEPT
                 ![cp].run = IF @ = "open" THEN "closed" ELSE "none",
                 ![cp].cur = FALSE,
                 ![cp].metered = FALSE]
       ELSE UNCHANGED <<state, hist>>
    /\ UNCHANGED <<order, cps, last_push_kw, loop>>

on_meter(cp, batch) ==
    /\ cp \in cps /\ Awaiting
    /\ LET p == ParseBatch(batch)
       IN  IF Known(cp)
           THEN /\ state' = [state EXCEPT ![cp] = MeterApply(@, p)]
                /\ hist' = [hist EXCEPT
                     ![cp].metered = IF IsSome(p.energy_kwh) /\ state[cp].tx_active
                                     THEN TRUE ELSE @,
                     ![cp].recross = IF /\ @ = 0
                                        /\ hist[cp].mails > 0
                                        /\ IsSome(p.soc_found)
                                        /\ Val(p.soc_found) < state[cp].boost_target_soc
                                     THEN 1 ELSE @]
           ELSE UNCHANGED <<state, hist>>
    /\ UNCHANGED <<order, cps, last_push_kw, loop>>

-----------------------------------------------------------------------------
(* scheduler.py / ocpp_cs.py: the arithmetic of a control-loop pass *)

clamp_kw_off(x) == x
clamp_kw(x) == Max(MIN_KW, Min(MAX_KW, x))

\* round(target, 2): kW to two decimals is W to the nearest 10
Round2Off(x) == x
Round2(x) == ((x + 5) \div 10) * 10

eco_kw_unsaturated(avg_wm2, sunny_kw, cloudy_kw) ==
    cloudy_kw
    + ((avg_wm2 - RAD_CLOUDY) * (sunny_kw - cloudy_kw)) \div (RAD_SUNNY - RAD_CLOUDY)
eco_kw_from_radiation(avg_wm2, sunny_kw, cloudy_kw) ==
    IF avg_wm2 <= RAD_CLOUDY THEN cloudy_kw
    ELSE IF avg_wm2 >= RAD_SUNNY THEN sunny_kw
    ELSE cloudy_kw
         + ((avg_wm2 - RAD_CLOUDY) * (sunny_kw - cloudy_kw)) \div (RAD_SUNNY - RAD_CLOUDY)

\* next_dt: the next occurrence of the time of day hhmm (minutes) after now
next_dt(hhmm, now) == IF hhmm <= now THEN hhmm + 1440 ELSE hhmm

\* hours_left, in minutes
HoursLeft(hhmm, now) == Max(0, next_dt(hhmm, now) - now)

\* eff = max(0.5, min(1.0, efficiency)), in percent
Eff == Max(50, Min(100, efficiency))

\* soc_now = current_soc if it is known, else soc or 0
SocNow(st) ==
    IF IsSome(st.current_soc) THEN Val(st.current_soc)
    ELSE IF IsSome(st.soc) THEN Val(st.soc) ELSE 0

\* req_kw = (need_kwh / hours_left) / eff if need_kwh > 0 else 0, in W
ReqKwNoEff(need_soc, minutes_left) ==
    IF need_soc * battery_kwh > 0
    THEN (need_soc * battery_kwh * 10 * 60) \div minutes_left
    ELSE 0
ReqKw(need_soc, minutes_left) ==
    IF need_soc * battery_kwh > 0
    THEN (need_soc * battery_kwh * 10 * 60 * 100) \div (minutes_left * Eff)
    ELSE 0

\* the target of one charge point before clamping, by mode
Target(st, sig) ==
    CASE st.mode = "manual" -> st.target_kw
      [] st.mode = "off" -> MIN_KW
      [] st.mode = "max" -> MAX_KW
      [] st.mode = "price" ->
            LET base == IF IsSome(sig.cur_price) /\ IsSome(sig.median_today)
                        THEN (IF Val(sig.cur_price) <= Val(sig.median_today)
                              THEN MAX_KW ELSE MIN_KW)
                        ELSE MIN_KW
                left == HoursLeft(420, sig.now)
            IN  IF left > 0
                THEN Max(base, ReqKw(Max(0, 100 - SocNow(st)), left))
                ELSE base
      [] OTHER ->
            LET left == HoursLeft(st.boost_cutoff_local, sig.now)
            IN  IF st.boost_enabled /\ left > 0
                THEN Max(sig.eco_kw, ReqKw(Max(0, st.boost_target_soc - SocNow(st)), left))
                ELSE sig.eco_kw

\* the condition of line 240: eco branch, boost on, SoC at or above the goal
GoalReached(st) ==
    /\ st.mode \notin {"manual", "off", "max", "price"}
    /\ st.boost_enabled
    /\ IsSome(st.current_soc)
    /\ Val(st.current_soc) >= st.boost_target_soc

\* the pass schedules the goal-reached mail for this record
NotifyEveryPass(st) == GoalReached(st)
Notify(st) ==
    /\ st.mode \notin {"manual", "off", "max", "price"}
    /\ st.boost_enabled
    /\ IsSome(st.current_soc)
    /\ Val(st.current_soc) >= st.boost_target_soc
    /\ ~st.boost_reached_notified

\* session_est_end_at of the pass: now + need_kwh / (target * eff) hours, in minutes
EstEndTo100(st, target, now) ==
    IF st.tx_active /\ IsSome(st.current_soc)
    THEN LET need_soc == Max(0, 100 - Val(st.current_soc))
         IN  IF need_soc > 0 /\ target > 0
             THEN Some(now + (need_soc * battery_kwh * 10 * 60 * 100) \div (target * Eff))
             ELSE None
    ELSE None
EstEnd(st, target, now) ==
    IF st.tx_active /\ IsSome(st.current_soc)
    THEN LET target_soc == IF st.mode = "eco" /\ st.boost_enabled
                           THEN st.boost_target_soc ELSE 100
             need_soc == Max(0, target_soc - Val(st.current_soc))
         IN  IF need_soc > 0 /\ target > 0
             THEN Some(now + (need_soc * battery_kwh * 10 * 60 * 100) \div (target * Eff))
             ELSE None
    ELSE None

\* the record after the pass has computed it (lines 211-271)
BodyRearms(st, sig) ==
    LET target == clamp_kw(Target(st, sig))
    IN  [st EXCEPT
            !.boost_reached_notified =
                IF Notify(st) THEN TRUE
                ELSE IF IsSome(st.current_soc) /\ Val(st.current_soc) < st.boost_target_soc
                     THEN FALSE ELSE @,
            !.target_kw = Round2(target),
            !.session_est_end_at = EstEnd(st, target, sig.now)]
Body(st, sig) ==
    LET target == clamp_kw(Target(st, sig))
    IN  [st EXCEPT
            !.boost_reached_notified = IF Notify(st) THEN TRUE ELSE @,
            !.target_kw = Round2(target),
            !.session_est_end_at = EstEnd(st, target, sig.now)]

\* the deadband test of step 4
PushDue(target_kw, lastp) ==
    lastp = None \/ Abs(target_kw - Val(lastp)) >= PUSH_DEADBAND_KW

\* Decimal.quantize(0.1, ROUND_HALF_UP) of n / d, in tenths
RoundHalfUpTenths(n, d) == (2 * 10 * n + d) \div (2 * d)

\* The electrical configurations a deployment may give a record (no code of
\* the repository writes the two fields), as <<phase_count, voltage_per_phase>>
ProfileConfigs == {<<3, 230>>, <<1, 230>>, <<1, 400>>, <<3, 400>>, <<2, 230>>}

\* amps_from_kw divides in binary floating point.  Over every whole-watt power
\* in [MIN_KW, MAX_KW] and every configuration of ProfileConfigs these are the
\* inputs <<W, phases, volts>> whose exact quotient is a tie n.n5 A while the
\* float quotient lies just below it (4.02 * 1000.0 / 400.0 is
\* 10.049999999999999), so that str() and ROUND_HALF_UP round it down.
FloatBelowTie ==
    {<<4020, 1, 400>>, <<4060, 1, 400>>, <<4020, 3, 400>>, <<8165, 2, 230>>}

\* _round_to_0p1(amps_from_kw(kw, phases, voltage)), in 0.1 A
ProfileAmps(kw, phases, voltage) ==
    LET w  == Max(MIN_KW, Min(MAX_KW, kw))
        up == RoundHalfUpTenths(w, Max(1, voltage) * Max(1, phases))
    IN  IF <<w, phases, voltage>> \in FloatBelowTie THEN up - 1 ELSE up

\* the SetChargingProfile request push_charging_profile builds for a record
ProfileRequest(st, target_kw) ==
    [ connector_id |-> 1,
      purpose      |-> "TxProfile",
      kind         |-> "Absolute",
      unit         |-> "A",
      duration     |-> 3600,
      periods      |-> << [ start_period |-> 0,
                            limit |-> ProfileAmps(target_kw, st.phase_count,
                                                   st.voltage_per_phase) ] >> ]

\* the limit of the profile, in 0.1 A
AmpsLimit(st, target_kw) == ProfileRequest(st, target_kw).periods[1].limit

-----------------------------------------------------------------------------
(* scheduler.py: control_loop *)

\* what the tick reads once: eco_kw, the cached prices, now_local (a suspended
\* tick keeps them in loop.sig while keys remain to be computed)
Signal(eco_kw, cur_price, median_today, now) ==
    [eco_kw |-> eco_kw, cur_price |-> cur_price, median_today |-> median_today,
     now |-> now]

\* The for loop from the keys in todo on, up to its next await: the bodies run
\* one after the other until one awaits push_charging_profile, or the keys end.
\* (st, the record of the key at hand, is bound once for the whole body)
RECURSIVE RunLoop(_, _, _, _, _, _, _)
RunLoop(todo, S, H, LP, ran, size, sig) ==
    IF todo = <<>>
    THEN [state |-> S, hist |-> H, ran |-> ran, loop |-> LoopIdle]
    ELSE CHOOSE r \in {
         LET cp == Head(todo)
             S2 == [S EXCEPT ![cp] = st]
             H2 == [H EXCEPT ![cp].mails = IF Notify(S[cp]) THEN Min(@ + 1, 2) ELSE @,
                             ![cp].failed = FALSE,
                             ![cp].recross = IF @ = 1 /\ GoalReached(S[cp]) THEN 2 ELSE @]
         IN  IF PushDue(st.target_kw, LP[cp]) /\ cp \in cps
             THEN [state |-> S2, hist |-> H2, ran |-> ran \cup {cp},
                   loop |-> [pc |-> "push", cur |-> Some(cp), kw |-> st.target_kw,
                             amps |-> AmpsLimit(st, st.target_kw),
                             todo |-> Tail(todo), size |-> size,
                             sig |-> IF Tail(todo) = <<>> THEN None ELSE Some(sig)]]
             ELSE RunLoop(Tail(todo), S2, H2, LP, ran \cup {cp}, size, sig)
         : st \in {Body(S[Head(todo)], sig)} } : TRUE

\* One iteration of `while True` from its start to its first await inside the
\* for loop (or to its sleep): providers answered, every record computed in turn.
Tick(eco_kw, cur_price, median_today, now) ==
    /\ loop.pc = "sleep"
    /\ LET sig == Signal(eco_kw, cur_price, median_today, now)
           r == RunLoop(order, state, hist, last_push_kw, {}, Len(order), sig)
       IN  /\ state' = r.state
           /\ hist' = r.hist
           /\ loop' = r.loop
    /\ UNCHANGED <<order, cps, last_push_kw>>

\* how self.call ends: a CallResult (Accepted or Rejected), a CallError (call
\* returns None) or an exception (timeout, closed connection)
PushOutcomes == {"Accepted", "Rejected", "CallError", "Raise"}

\* The await of push_charging_profile ends; on a normal return line 280 stores
\* st.target_kw; then the for loop goes on (a dict that grew meanwhile raises
\* RuntimeError at the next key, which ends the tick in the outer except).
\* H is the history to go on with.
StoredPush(outcome) ==
    IF outcome = "Raise" THEN last_push_kw
    ELSE [last_push_kw EXCEPT ![Val(loop.cur)] = Some(state[Val(loop.cur)].target_kw)]

\* a loop whose task has ended: no iteration starts any more
Stopped == [LoopIdle EXCEPT !.pc = "stopped"]
\* the control loop after the handler of line 292 caught an exception: back at
\* the top of `while True`
Caught == LoopIdle

AfterPush(outcome, H) ==
    IF Len(order) # loop.size
    THEN [state |-> state, hist |-> H, ran |-> {}, loop |-> Caught]
    ELSE IF loop.todo = <<>>
    THEN [state |-> state, hist |-> H, ran |-> {}, loop |-> LoopIdle]
    ELSE RunLoop(loop.todo, state, H, StoredPush(outcome), {}, loop.size, Val(loop.sig))

PushReturnFrom(outcome, H) ==
    /\ loop.pc = "push"
    /\ LET r == AfterPush(outcome, H)
       IN  /\ last_push_kw' = StoredPush(outcome)
           /\ state' = r.state
           /\ hist' = r.hist
           /\ loop' = r.loop
    /\ UNCHANGED <<order, cps>>

PushReturn(outcome) == PushReturnFrom(outcome, hist)

\* the same step, with the charge point's answer kept in the history
PushReturnObserved(outcome) ==
    PushReturnFrom(outcome,
        [hist EXCEPT
            ![Val(loop.cur)].acked = IF outcome = "Accepted" THEN Some(loop.kw) ELSE @,
            ![Val(loop.cur)].failed = (outcome # "Accepted")])

-----------------------------------------------------------------------------
(* The operator's requests of the query surface: set mode, set manual target
   power, set boost.  They are served while the control loop sleeps. *)

SetMode(cp, m) ==
    /\ Known(cp) /\ loop.pc = "sleep"
    /\ state' = [state EXCEPT ![cp].mode = m]
    /\ UNCHANGED <<order, cps, last_push_kw, loop, hist>>

SetManual(cp, kw) ==
    /\ Known(cp) /\ loop.pc = "sleep"
    /\ state' = [state EXCEPT ![cp].mode = "manual", ![cp].target_kw = kw]
    /\ UNCHANGED <<order, cps, last_push_kw, loop, hist>>

SetBoost(cp, enabled, target_soc) ==
    /\ Known(cp) /\ loop.pc = "sleep"
    /\ state' = [state EXCEPT
           ![cp].boost_enabled = enabled,
           ![cp].boost_target_soc = target_soc,
           ![cp].boost_reached_notified = IF enabled THEN FALSE ELSE @]
    /\ hist' = [hist EXCEPT ![cp].mails = IF enabled THEN 0 ELSE @,
                            ![cp].recross = IF enabled THEN 0 ELSE @]
    /\ UNCHANGED <<order, cps, last_push_kw, loop>>

-----------------------------------------------------------------------------
(* Inputs of the control loop *)

\* avg_wm2 of fetch_radiation; None: the fetch failed
Radiation == {None, Some(100), Some(425), Some(900)}

\* app.state.eco: the default of ECO_CONFIG, and the widest set_eco_config stores
EcoConfigs ==
    { [sunny_kw |-> 11000, cloudy_kw |-> 3700], [sunny_kw |-> 22000, cloudy_kw |-> 0] }

\* eco_kw of a tick (lines 194-200)
EcoKw(rad, cfg) ==
    clamp_kw(eco_kw_from_radiation(IF rad = None THEN RAD_CLOUDY ELSE Val(rad),
                                   cfg.sunny_kw, cfg.cloudy_kw))

EcoKwInputs == {EcoKw(rad, cfg) : rad \in Radiation, cfg \in EcoConfigs}

\* prices_cache cur and median, in ct/kWh
PriceInputs ==
    { [cur |-> None, med |-> None], [cur |-> Some(20), med |-> Some(25)],
      [cur |-> Some(30), med |-> Some(25)] }

\* now_local as minutes of the day: 03:00 and 08:00
NowInputs == {180, 480}

ManualKwInputs == {3750, 3800, 12000}

BoostTargetInputs == {80, 100}

-----------------------------------------------------------------------------
(* price_provider.py: fetch_prices_ct_per_kwh and median.
   Instants are minutes on the UTC axis, prices are 0.001 ct/kWh. *)

\* the last instant a datetime can hold: beyond it _to_dt_ms and
\* datetime + timedelta raise OverflowError
DtMax == 20000

\* timedelta(minutes=15)
Quarter == 15

\* timedelta(hours=36)
Window == 2160

\* the offset of LOCAL_TZ (Europe/Berlin, winter) from UTC
TzOffset == 60

\* ts.astimezone(ZoneInfo(tzname)).date(), as a day number
LocalDate(t) == (t + TzOffset) \div 1440

\* one element of the provider's "data" list; a field is None when it is
\* missing or not a number
Item(start, end, eur) == [start_timestamp |-> start, end_timestamp |-> end,
                          marketprice |-> eur]

\* the try block of the item loop succeeds (lines 38-42)
ItemParses(it) ==
    /\ IsSome(it.start_timestamp) /\ Val(it.start_timestamp) <= DtMax
    /\ IsSome(it.end_timestamp) /\ Val(it.end_timestamp) <= DtMax
    /\ IsSome(it.marketprice)

\* eur_per_mwh / 10.0 ct/kWh
CtPerKwh(eur) == eur * 100

\* the while loop of lines 47-50: slot + timedelta is computed after each
\* append, outside any try
RECURSIVE ExpandItem(_, _, _, _)
ExpandItem(slot, end, ct, out) ==
    IF ~(slot < end) THEN [out |-> out, raised |-> FALSE]
    ELSE IF slot + Quarter > DtMax
         THEN [out |-> Append(out, <<slot, ct>>), raised |-> TRUE]
         ELSE ExpandItem(slot + Quarter, end, ct, Append(out, <<slot, ct>>))

\* the for loop of lines 36-50 from item i on
RECURSIVE ExpandFrom(_, _, _)
ExpandFrom(data, i, out) ==
    IF i > Len(data) THEN [out |-> out, raised |-> FALSE]
    ELSE IF ~ItemParses(data[i]) THEN ExpandFrom(data, i + 1, out)
    ELSE LET it == data[i]
             e == ExpandItem(Val(it.start_timestamp), Val(it.end_timestamp),
                             CtPerKwh(Val(it.marketprice)), out)
         IN  IF e.raised THEN e ELSE ExpandFrom(data, i + 1, e.out)

\* list.sort(key=lambda x: x[0]): stable, ascending by the first component
RECURSIVE InsertByFirst(_, _)
InsertByFirst(x, sq) ==
    IF sq = <<>> THEN <<x>>
    ELSE IF x[1] < Head(sq)[1] THEN <<x>> \o sq
    ELSE <<Head(sq)>> \o InsertByFirst(x, Tail(sq))

RECURSIVE SortByFirst(_)
SortByFirst(sq) ==
    IF sq = <<>> THEN <<>>
    ELSE InsertByFirst(sq[Len(sq)], SortByFirst(SubSeq(sq, 1, Len(sq) - 1)))

\* sorted(values) of a list of numbers
Sorted(values) ==
    LET srt == SortByFirst([i \in 1..Len(values) |-> <<values[i]>>])
    IN  [i \in 1..Len(values) |-> srt[i][1]]

\* [p for p in out if lo <= p[0] <= hi]
InWindow(out, now) ==
    SelectSeq(out, LAMBDA p : now - Window <= p[1] /\ p[1] <= now + Window)

\* how the HTTP exchange ends: timeout, non-200 status, a body that is not
\* JSON, a JSON body that is neither a list nor a dict with a list, or a list
Response(kind, data) == [kind |-> kind, data |-> data]

\* fetch_prices_ct_per_kwh(now): raised, or the series it returns
fetch_prices_ct_per_kwh(resp, now) ==
    IF resp.kind \in {"timeout", "non200", "badjson", "shape"}
    THEN [raised |-> FALSE, series |-> <<>>]
    ELSE LET e == ExpandFrom(resp.data, 1, <<>>)
         IN  IF e.raised THEN [raised |-> TRUE, series |-> <<>>]
             ELSE [raised |-> FALSE,
                   series |-> InWindow(SortByFirst(e.out), now)]

\* median(values): 0.0 for an empty list
median(values) ==
    IF values = <<>> THEN 0
    ELSE LET srt == Sorted(values)
             n == Len(srt)
             m == n \div 2
         IN  IF n % 2 = 1 THEN srt[m + 1] ELSE (srt[m] + srt[m + 1]) \div 2

-----------------------------------------------------------------------------
(* scheduler.py: refresh_prices *)

\* lines 169-176: the last price seen before the first slot that starts after now
RECURSIVE CurFrom(_, _, _, _)
CurFrom(series, i, now, cur) ==
    IF i > Len(series) THEN cur
    ELSE IF series[i][1] <= now THEN CurFrom(series, i + 1, now, Some(series[i][2]))
    ELSE cur

\* the prices of a sequence of slots
PricesOf(series) == [i \in 1..Len(series) |-> series[i][2]]

\* lines 164-180 once the series is there
Refreshed(series, now) ==
    LET today_vals == PricesOf(SelectSeq(series,
                          LAMBDA p : LocalDate(p[1]) = LocalDate(now)))
    IN  [ ts     |-> Some(now),
          series |-> series,
          cur    |-> CurFrom(series, 1, now, None),
          median |-> IF today_vals # <<>> THEN Some(median(today_vals)) ELSE None ]

\* A refresh that is due (lines 147-187).  An exception of the fetch leaves
\* prices_cache as it was and ends the tick in the handler of line 292.
refresh_prices(resp, now) ==
    LET f == fetch_prices_ct_per_kwh(resp, now)
    IN  /\ loop.pc = "sleep"
        /\ prices_cache' = IF f.raised THEN prices_cache ELSE Refreshed(f.series, now)
        /\ UNCHANGED <<energy_logs, conns>>
        /\ last' = [op |-> "refresh_prices", cp |-> "cp1", arg |-> now,
                    res |-> IF f.raised THEN "raised" ELSE "returned",
                    resp |-> resp, series |-> f.series]
        /\ UNCHANGED <<state, order, cps, last_push_kw, loop, hist, mainvars>>

-----------------------------------------------------------------------------
(* scheduler.py: one iteration of control_loop with its providers *)

\* now_local as minutes of the local day
LocalMinute(t) == (t + TzOffset) % 1440

\* the default of ECO_CONFIG
EcoDefault == [sunny_kw |-> 11000, cloudy_kw |-> 3700]

\* The iteration from line 191 to its first await inside the for loop.
\* rad = None: fetch_radiation failed (line 196); resp = None: no refresh is
\* due, the cached prices are used.  An exception of the price fetch ends the
\* iteration in the handler of line 292 before any record is computed.
control_tick(rad, resp, now) ==
    \E f \in {IF resp = None THEN [raised |-> FALSE, series |-> <<>>]
               ELSE fetch_prices_ct_per_kwh(Val(resp), now)} :
    \E pc2 \in {IF resp = None THEN prices_cache ELSE Refreshed(f.series, now)} :
        IF f.raised
        THEN /\ loop.pc = "sleep"
             /\ loop' = Caught
             /\ UNCHANGED <<state, order, cps, last_push_kw, hist, prices_cache, energy_logs, conns>>
        ELSE /\ Tick(EcoKw(rad, EcoDefault), pc2.cur, pc2.median, LocalMinute(now))
             /\ prices_cache' = pc2
             /\ UNCHANGED <<energy_logs, conns>>

-----------------------------------------------------------------------------
(* main.py: api_price, on a cache miss *)

\* lines 395-402: float(it.get(...) or 0) raises on a value that is not a number
ApiItemParses(it) ==
    IsSome(it.start_timestamp) /\ IsSome(it.end_timestamp) /\ IsSome(it.marketprice)

ApiSeries(data) ==
    [i \in 1..Len(data) |->
        [start |-> Val(data[i].start_timestamp), end |-> Val(data[i].end_timestamp),
         ct_per_kwh |-> CtPerKwh(Val(data[i].marketprice))]]

\* lines 404-410: the last item with start <= now <= end
RECURSIVE ApiCurFrom(_, _, _, _)
ApiCurFrom(series, i, now, current) ==
    IF i > Len(series) THEN current
    ELSE ApiCurFrom(series, i + 1, now,
                    IF series[i].start <= now /\ now <= series[i].end
                    THEN Some(series[i].ct_per_kwh) ELSE current)

\* lines 411-417: the median of every item of the payload
ApiMedian(series) ==
    IF series = <<>> THEN None
    ELSE Some(median([i \in 1..Len(series) |-> series[i].ct_per_kwh]))

api_price(resp, now) ==
    /\ IF resp.kind # "list" \/ \E i \in 1..Len(resp.data) : ~ApiItemParses(resp.data[i])
       THEN api' = [op |-> "price", cp |-> "cp1", sent |-> None, outcome |-> "",
                    reply |-> "502"]
       ELSE LET series == ApiSeries(resp.data)
            IN  api' = [op |-> "price", cp |-> "cp1", sent |-> None, outcome |-> "",
                        reply |-> "ok", now |-> now, series |-> series,
                        current |-> ApiCurFrom(series, 1, now, None),
                        median |-> ApiMedian(series)]
    /\ UNCHANGED <<state, order, cps, last_push_kw, loop, hist, last, cp_status,
                   prices_cache, energy_logs, conns>>

\* Inputs: hourly items of local day 0 (two adjacent hours), of local day 1
\* after a gap, at the edge of the 36 h window, at the end of the datetime
\* range, and one with a field that is not a number
ItemA == Item(Some(1200), Some(1260), Some(100))
ItemB == Item(Some(1260), Some(1320), Some(200))
ItemNextDay == Item(Some(1380), Some(1440), Some(400))
ItemFar == Item(Some(3500), Some(3560), Some(300))
ItemLate == Item(Some(DtMax - 10), Some(DtMax), Some(100))
ItemBad == Item(None, Some(1260), Some(100))

PriceItems == {ItemA, ItemB, ItemNextDay, ItemFar, ItemLate, ItemBad}

Payloads ==
    {<<>>} \cup [1..1 -> PriceItems]
    \cup { <<ItemA, ItemB>>, <<ItemB, ItemA>>, <<ItemB, ItemNextDay>>,
           <<ItemA, ItemB, ItemNextDay>>, <<ItemNextDay, ItemFar>>,
           <<ItemA, ItemBad>>, <<ItemBad, ItemB>>, <<ItemA, ItemLate>> }

Responses ==
    {Response(k, <<>>) : k \in {"timeout", "non200", "badjson", "shape"}}
    \cup {Response("list", d) : d \in Payloads}

\* now: before every slot, inside an hour, in the gap, on local day 1
PriceNows == {1190, 1275, 1330, 1400}

-----------------------------------------------------------------------------
(* main.py: the manual set-power and boost operations of the query surface *)

PHASES == 3
VOLTAGE == 230

\* normalize_status on the strings the model uses: "unknown" for an empty
\* status, else strip, " " and "-" to "_", lower
normalize_status(s) ==
    CASE s = "" -> "unknown"
      [] s = "Available" -> "available"
      [] s = "Charging" -> "charging"
      [] s = "Suspended EV" -> "suspended_ev"
      [] s = "suspended-ev" -> "suspended_ev"
      [] s = "SuspendedEV" -> "suspendedev"
      [] OTHER -> s

ApiIdle == [op |-> "none", cp |-> "cp1", sent |-> None, outcome |-> "", reply |-> ""]

\* clamp(x, lo, hi)
clamp(x, lo, hi) == Max(lo, Min(hi, x))

\* _round01 of n / d: round(x * 10.0) / 10.0, in tenths; Python's round goes to
\* the even neighbour at a tie
_round01(n, d) ==
    LET q == (10 * n) \div d
        r == (10 * n) % d
    IN  IF 2 * r > d THEN q + 1
        ELSE IF 2 * r < d THEN q
        ELSE IF q % 2 = 0 THEN q ELSE q + 1

\* the limit push_limit_kw sends for kw (W), in 0.1 A: at least 6 A
PushLimitAmps(kw) == Max(60, _round01(kw, VOLTAGE * PHASES))

\* last_profile_status as push_limit_kw stores it: getattr(res, "status", "")
ProfileStatus(outcome) ==
    IF outcome \in {"Accepted", "Rejected"} THEN outcome ELSE ""

\* {"id": cp_id}: a status dict without any further key (None: key absent)
StatusNew ==
    [ status |-> None, error_code |-> None, tx_active |-> None,
      start_meter_wh |-> None, last_meter_wh |-> None,
      energy_kwh_session |-> None, soc |-> None,
      target_kw |-> None, last_profile_status |-> None ]

\* cp_status.get(cp_id) or {"id": cp_id}
StatusOf(S, cp) == IF cp \in DOMAIN S THEN S[cp] ELSE StatusNew

\* S with S[cp] = st
StatusPut(S, cp, st) == [c \in DOMAIN S \cup {cp} |-> IF c = cp THEN st ELSE S[c]]

\* push_limit_kw: the call is awaited; a result (whatever its status) is stored,
\* an exception is logged and swallowed
push_limit_kw(S, cp, kw, outcome) ==
    IF outcome = "Raise" THEN S
    ELSE StatusPut(S, cp, [StatusOf(S, cp) EXCEPT
                              !.target_kw = Some(kw),
                              !.last_profile_status = Some(ProfileStatus(outcome))])

\* _apply_limit: 409 without a registered handler; else push, store target_kw,
\* reply ok
_apply_limit(op, cp, kw, outcome) ==
    IF cp \notin cps
    THEN /\ api' = [op |-> op, cp |-> cp, sent |-> None, outcome |-> "", reply |-> "409"]
         /\ UNCHANGED cp_status
    ELSE LET S1 == push_limit_kw(cp_status, cp, kw, outcome)
             S2 == StatusPut(S1, cp, [StatusOf(S1, cp) EXCEPT !.target_kw = Some(kw)])
         IN  /\ cp_status' = S2
             /\ api' = [op |-> op, cp |-> cp, sent |-> Some(PushLimitAmps(kw)),
                        outcome |-> outcome, reply |-> "ok"]

\* POST /api/points/{cp_id}/set_kw; kw = None: the body has no "kw"
set_kw(cp, kw, outcome) ==
    /\ IF kw = None
       THEN /\ api' = [op |-> "set_kw", cp |-> cp, sent |-> None, outcome |-> "",
                       reply |-> "400"]
            /\ UNCHANGED cp_status
       ELSE _apply_limit("set_kw", cp, clamp(Val(kw), 0, 22000), outcome)
    /\ UNCHANGED <<state, order, cps, last_push_kw, loop, hist, last, prices_cache, energy_logs, conns>>

\* GET /api/points/{cp_id}/boost?kw=...; kw = None: 11 kW
get_boost(cp, kw, outcome) ==
    /\ _apply_limit("boost", cp, IF kw = None THEN 11000 ELSE Val(kw), outcome)
    /\ UNCHANGED <<state, order, cps, last_push_kw, loop, hist, last, prices_cache, energy_logs, conns>>

\* POST /api/points/{cp_id}/boost; body.get("kw", 11.0)
post_boost(cp, kw, outcome) ==
    /\ _apply_limit("boost", cp, IF kw = None THEN 11000 ELSE Val(kw), outcome)
    /\ UNCHANGED <<state, order, cps, last_push_kw, loop, hist, last, prices_cache, energy_logs, conns>>

-----------------------------------------------------------------------------
(* main.py: ocpp_ws and the OCPP handlers of its CentralSystem, on cp_status *)

\* ocpp_ws up to cp.start(): the handler is registered, the status dict exists
ocpp_ws_open(cp) ==
    /\ Connect(cp)
    /\ cp_status' = StatusPut(cp_status, cp,
           [StatusOf(cp_status, cp) EXCEPT
               !.status = IF @ = None THEN Some("unknown") ELSE @])

\* the status dict after the finally block of ocpp_ws (lines 369-372)
ClosedReset(st) == [StatusNew EXCEPT !.status = Some("disconnected")]
Closed(st) == [st EXCEPT !.status = Some("disconnected")]

\* cp.start() ends, by WebSocketDisconnect or by any exception: the finally
\* block releases the handler and marks the charge point
ocpp_ws_close(cp) ==
    /\ Disconnect(cp)
    /\ cp_status' = StatusPut(cp_status, cp, Closed(StatusOf(cp_status, cp)))

\* the frame of a handler of main.py
MainFrame == UNCHANGED <<state, order, cps, last_push_kw, loop, hist, api, prices_cache, energy_logs, conns>>

main_on_boot(cp) ==
    /\ cp \in cps
    /\ cp_status' = StatusPut(cp_status, cp,
           [StatusOf(cp_status, cp) EXCEPT !.status = Some("available")])
    /\ MainFrame

main_on_status(cp, status, error_code) ==
    /\ cp \in cps
    /\ cp_status' = StatusPut(cp_status, cp,
           [StatusOf(cp_status, cp) EXCEPT
               !.status = Some(normalize_status(status)),
               !.error_code = Some(error_code)])
    /\ MainFrame

on_start_transaction(cp, meter_start) ==
    /\ cp \in cps
    /\ cp_status' = StatusPut(cp_status, cp,
           [StatusOf(cp_status, cp) EXCEPT
               !.tx_active = Some(TRUE),
               !.start_meter_wh = Some(meter_start),
               !.last_meter_wh = Some(meter_start),
               !.energy_kwh_session = Some(0)])
    /\ MainFrame

\* the parsing loop of on_meter_values over the samples of a batch: the locals
\* (latest_energy_wh, soc); a value that is not a number is skipped
RECURSIVE MainParseFrom(_, _, _)
MainParseFrom(b, i, acc) ==
    IF i > Len(b) THEN acc
    ELSE LET sv == b[i]
             lower == Lower(sv.measurand)
         IN  MainParseFrom(b, i + 1,
                IF sv.value = None THEN acc
                ELSE IF lower = "energy.active.import.register"
                THEN [acc EXCEPT !.latest_energy_wh =
                         Some(IF Lower(sv.unit) = "wh" THEN Val(sv.value)
                              ELSE Val(sv.value) * 1000)]
                ELSE IF lower = "soc"
                THEN [acc EXCEPT !.soc = Some(Val(sv.value))]
                ELSE acc)

on_meter_values(cp, batch) ==
    /\ cp \in cps
    /\ LET p == MainParseFrom(batch, 1, [latest_energy_wh |-> None, soc |-> None])
           st == StatusOf(cp_status, cp)
           start == IF IsSome(p.latest_energy_wh) /\ st.start_meter_wh = None
                    THEN p.latest_energy_wh ELSE st.start_meter_wh
       IN  cp_status' = StatusPut(cp_status, cp,
              [st EXCEPT
                  !.start_meter_wh = start,
                  !.last_meter_wh = IF IsSome(p.latest_energy_wh)
                                    THEN p.latest_energy_wh ELSE @,
                  !.energy_kwh_session =
                      IF IsSome(p.latest_energy_wh)
                      THEN Some(Max(0, Val(p.latest_energy_wh) - Val(start))) ELSE @,
                  !.soc = IF IsSome(p.soc) THEN p.soc ELSE @])
    /\ MainFrame

on_stop_transaction(cp, meter_stop) ==
    /\ cp \in cps
    /\ cp_status' = StatusPut(cp_status, cp,
           [StatusOf(cp_status, cp) EXCEPT
               !.energy_kwh_session =
                   IF IsSome(StatusOf(cp_status, cp).start_meter_wh)
                   THEN Some(Max(0, meter_stop - Val(StatusOf(cp_status, cp).start_meter_wh)))
                   ELSE @,
               !.last_meter_wh = Some(meter_stop),
               !.tx_active = Some(FALSE)])
    /\ MainFrame

\* statuses and batches a charge point sends to main.py's handlers
MainStatusVals == {"Charging", "Suspended EV", "SuspendedEV"}

MainBatches ==
    { <<Sample("Energy.Active.Import.Register", "Wh", Some(1000))>>,
      <<Sample("SoC", "Percent", Some(80))>>,
      <<Sample("Energy.Active.Import.Register", "Wh", None),
        Sample("SoC", "Percent", Some(40))>> }

\* kW values a caller sends, in W; None: no value
ApiKwInputs == {None, Some(0), Some(3000), Some(4500), Some(11000), Some(22000), Some(30000)}

-----------------------------------------------------------------------------
(* Initial state: after import, before any connection *)

Init ==
    /\ state = <<>>
    /\ order = <<>>
    /\ cps = {}
    /\ last_push_kw = [c \in CPs |-> None]
    /\ loop = LoopIdle
    /\ hist = [c \in CPs |-> HistInit]
    /\ last = [op |-> "init", cp |-> "cp1", arg |-> 0, res |-> ""]
    /\ cp_status = <<>>
    /\ api = ApiIdle
    /\ prices_cache = PricesIdle
    /\ energy_logs = [c \in CPs |-> <<>>]
    /\ conns = ConnsIdle

-----------------------------------------------------------------------------
(* The OCPP session of one charge point: message handlers only *)

SessionCPs == {"cp1"}

NextSession ==
    /\ \E cp \in SessionCPs :
        \/ Connect(cp) /\ Note("Connect", cp, 0)
        \/ Disconnect(cp) /\ Note("Disconnect", cp, 0)
        \/ on_boot(cp) /\ Note("BootNotification", cp, 0)
        \/ on_heartbeat(cp) /\ Note("Heartbeat", cp, 0)
        \/ \E status \in StatusVals :
              on_status(cp, status) /\ Note("StatusNotification", cp, 0)
        \/ \E r \in RegisterWh : on_start_tx(cp, r) /\ Note("StartTransaction", cp, r)
        \/ \E r \in RegisterWh : on_stop_tx(cp, r) /\ Note("StopTransaction", cp, r)
        \/ \E b \in Batches : on_meter(cp, b) /\ Note("MeterValues", cp, 0)
    /\ UNCHANGED <<mainvars, prices_cache, energy_logs, conns>>

SpecSession == Init /\ [][NextSession]_vars

-----------------------------------------------------------------------------
(* The control loop with one charge point; steps are not labelled *)

LoopCPs == {"cp1"}

Next ==
    /\ \/ \E cp \in LoopCPs :
            \/ Connect(cp)
            \/ Disconnect(cp)
            \/ on_boot(cp)
            \/ \E b \in SocBatches : on_meter(cp, b)
            \/ \E m \in Modes : SetMode(cp, m)
            \/ \E kw \in ManualKwInputs : SetManual(cp, kw)
            \/ \E en \in BOOLEAN : \E t \in BoostTargetInputs : SetBoost(cp, en, t)
       \/ \E eco \in EcoKwInputs : \E pr \in PriceInputs : \E now \in NowInputs :
            Tick(eco, pr.cur, pr.med, now)
       \/ \E outcome \in PushOutcomes : PushReturn(outcome)
    /\ UNCHANGED <<last, mainvars, prices_cache, energy_logs, conns>>

Spec == Init /\ [][Next]_vars

-----------------------------------------------------------------------------
(* Setpoint delivery to one charge point: modes, ticks and push answers *)

NextPush ==
    /\ \/ \E cp \in LoopCPs :
           \/ Connect(cp) /\ Note("Connect", cp, 0)
           \/ Disconnect(cp) /\ Note("Disconnect", cp, 0)
           \/ on_boot(cp) /\ Note("BootNotification", cp, 0)
           \/ \E m \in Modes : SetMode(cp, m) /\ Note("Request", cp, 0)
           \/ \E kw \in ManualKwInputs : SetManual(cp, kw) /\ Note("Request", cp, 0)
       \/ \E eco \in EcoKwInputs : \E pr \in PriceInputs : \E now \in NowInputs :
           Tick(eco, pr.cur, pr.med, now) /\ Note("Tick", "cp1", 0)
       \/ \E outcome \in PushOutcomes :
           PushReturnObserved(outcome) /\ NoteStep("PushReturn", Val(loop.cur), 0, outcome)
    /\ UNCHANGED <<mainvars, prices_cache, energy_logs, conns>>

SpecPush == Init /\ [][NextPush]_vars

-----------------------------------------------------------------------------
(* The query surface of main.py with one charge point *)

ApiCPs == {"cp1"}

NextApi ==
    \/ \E cp \in ApiCPs :
        \/ Connect(cp) /\ UNCHANGED <<last, mainvars, prices_cache, energy_logs, conns>>
        \/ Disconnect(cp) /\ UNCHANGED <<last, mainvars, prices_cache, energy_logs, conns>>
    \/ \E cp \in ApiCPs : \E kw \in ApiKwInputs : \E outcome \in PushOutcomes :
        \/ set_kw(cp, kw, outcome)
        \/ get_boost(cp, kw, outcome)
        \/ post_boost(cp, kw, outcome)

SpecApi == Init /\ [][NextApi]_vars

-----------------------------------------------------------------------------
(* Setpoint bounds: C1 and C2, checked under Spec *)

\* C1: each setpoint the control loop hands to push_charging_profile, and each
\* ampere limit push_charging_profile sends, corresponds to a power within
\* [MIN_KW, MAX_KW], whatever the mode, price, irradiance, SoC, boost settings
\* and previously stored target_kw.  (loop.amps is in 0.1 A, so amps * V * phases
\* is in 0.1 W.)
C1_PushedSetpointWithinBounds ==
    loop.pc = "push" =>
        /\ MIN_KW <= loop.kw /\ loop.kw <= MAX_KW
        /\ MIN_KW * 10 <= loop.amps * voltage_per_phase * phase_count
        /\ loop.amps * voltage_per_phase * phase_count <= MAX_KW * 10

\* a manual override above MAX_KW is handed to the charge point as MAX_KW
C1_Witness ==
    /\ loop.pc = "push"
    /\ loop.cur = Some("cp1")
    /\ state["cp1"].mode = "manual"
    /\ loop.kw = MAX_KW
    /\ last_push_kw["cp1"] = Some(MIN_KW)

\* C2 (as claimed): in every reachable state every charge-point record has
\* target_kw within [MIN_KW, MAX_KW], a record just created by BootNotification
\* or StartTransaction and not yet visited by a control-loop tick included.
C2_TargetKwAlwaysWithinBounds ==
    \A cp \in DOMAIN state :
        MIN_KW <= state[cp].target_kw /\ state[cp].target_kw <= MAX_KW

-----------------------------------------------------------------------------
(* Setpoint delivery: C8 and C9, checked under SpecPush *)

\* the step hands a setpoint for cp to push_charging_profile
Issued(cp) == loop'.pc = "push" /\ loop'.cur = Some(cp)

\* the deadband condition against the last successfully pushed value
DueAgainstAccepted(cp) ==
    \/ hist[cp].acked = None
    \/ Abs(state'[cp].target_kw - Val(hist[cp].acked)) >= PUSH_DEADBAND_KW

\* C8 (as claimed): in a control-loop tick, for a charge point with a registered
\* handler, a SetChargingProfile is issued if and only if no setpoint has been
\* successfully pushed to it before or the newly computed clamped target differs
\* from the last successfully pushed value by at least the deadband; after a
\* successful push the last-pushed value equals the pushed target.
C8_PushIffDeadbandAgainstAccepted ==
    [][ \A cp \in LoopCPs :
          /\ (last'.op = "Tick" /\ Known(cp) /\ cp \in cps) =>
                (Issued(cp) <=> DueAgainstAccepted(cp))
          /\ (last'.op = "PushReturn" /\ last'.cp = cp /\ last'.res = "Accepted") =>
                last_push_kw'[cp] = Some(loop.kw)
      ]_vars

\* C9 (as claimed): when a push fails (rejected, timed out or raising), target_kw
\* keeps the newly computed value, the recorded last-pushed value is left
\* unchanged, and the next control-loop tick issues the push again as long as
\* the deadband condition against the last successfully pushed value holds.
C9_FailedPushIsRetried ==
    [][ \A cp \in LoopCPs :
          /\ (last'.op = "PushReturn" /\ last'.cp = cp /\ last'.res # "Accepted") =>
                /\ state'[cp].target_kw = loop.kw
                /\ last_push_kw'[cp] = last_push_kw[cp]
          /\ (/\ last'.op = "Tick" /\ Known(cp) /\ cp \in cps
              /\ hist[cp].failed
              /\ DueAgainstAccepted(cp)) =>
                Issued(cp)
      ]_vars

-----------------------------------------------------------------------------
(* Boost notification: C10, checked under Spec *)

\* C10: within one boost activation (from boost being enabled until it is next
\* re-enabled) the goal-reached notification is scheduled at most once, however
\* many passes see current_soc >= boost_target_soc and however often the SoC
\* drops below the target and crosses it again.
C10_NotifiedAtMostOncePerActivation ==
    \A cp \in CPs : hist[cp].mails <= 1

\* after the mail the SoC fell below the target, a later pass saw the goal
\* reached again, and still only one mail was scheduled
C10_Witness ==
    /\ Known("cp1")
    /\ hist["cp1"].mails = 1
    /\ hist["cp1"].recross = 2
    /\ state["cp1"].boost_enabled

-----------------------------------------------------------------------------
(* Session accounting: C3 - C7, checked under SpecSession *)

\* C3 (as claimed): whenever tx_active is true and an energy register has been
\* reported by MeterValues since the transaction became active, session_kwh
\* equals max(0, latest register - session_start_kwh_reg), with
\* session_start_kwh_reg the register at the start of the current transaction,
\* whichever message made the transaction active; right after StartTransaction
\* session_kwh is 0.
C3_SessionKwhTracksRegister ==
    \A cp \in DOMAIN state :
        LET st == state[cp] IN
        /\ (st.tx_active /\ hist[cp].metered) =>
               /\ hist[cp].cur
               /\ IsSome(st.session_start_kwh_reg)
               /\ st.session_kwh =
                      Some(Max(0, Val(st.energy_kwh_total) - Val(st.session_start_kwh_reg)))
        /\ (last.op = "StartTransaction" /\ last.cp = cp) => st.session_kwh = Some(0)

C5_SessionKwhNonNegative ==
    \A cp \in DOMAIN state :
        IsSome(state[cp].session_kwh) => Val(state[cp].session_kwh) >= 0

\* C5 witness: during a transaction MeterValues has reported a register below
\* the session start register, and session_kwh is 0.
C5_Witness ==
    \E cp \in DOMAIN state :
        /\ last.op = "MeterValues" /\ last.cp = cp
        /\ state[cp].tx_active /\ hist[cp].metered
        /\ IsSome(state[cp].session_start_kwh_reg)
        /\ Val(state[cp].energy_kwh_total) < Val(state[cp].session_start_kwh_reg)
        /\ state[cp].session_kwh = Some(0)

\* C6 (as claimed): within one transaction, that is in every step that is not
\* a StartTransaction, session_kwh does not decrease.
C6_SessionKwhNeverDecreases ==
    [][ \A cp \in DOMAIN state :
            (last'.op # "StartTransaction" /\ IsSome(state[cp].session_kwh)) =>
                /\ IsSome(state'[cp].session_kwh)
                /\ Val(state'[cp].session_kwh) >= Val(state[cp].session_kwh) ]_vars

\* C7: applying the same MeterValues batch a second time leaves session_kwh,
\* energy_kwh_total and soc as the first application left them.
C7_MeterValuesIdempotent ==
    \A cp \in DOMAIN state : \A b \in Batches :
        LET p == ParseBatch(b)
            once == MeterApply(state[cp], p)
            twice == MeterApply(once, p)
        IN  /\ twice.session_kwh = once.session_kwh
            /\ twice.energy_kwh_total = once.energy_kwh_total
            /\ twice.soc = once.soc

\* C7 witness: MeterValues has just been applied during a transaction and has
\* produced a positive session_kwh and a SoC, and the record is the one a
\* batch with an energy register maps to itself (the replay of that batch).
C7_Witness ==
    \E cp \in DOMAIN state :
        /\ last.op = "MeterValues" /\ last.cp = cp
        /\ state[cp].tx_active
        /\ IsSome(state[cp].session_kwh) /\ Val(state[cp].session_kwh) > 0
        /\ IsSome(state[cp].soc)
        /\ \E b \in Batches :
               /\ IsSome(ParseBatch(b).energy_kwh)
               /\ IsSome(ParseBatch(b).soc_found)
               /\ MeterApply(state[cp], ParseBatch(b)) = state[cp]

-----------------------------------------------------------------------------
(* One pass of the control loop over one record: the record is drawn from the
   values its fields can hold, the signals of the pass from the inputs above *)

\* target_kw as stored before the pass: the default, and manual values
TickTargets == {0, 3750, 5123, 12000}

TickSocs == {None, Some(40), Some(80), Some(100)}

TickRecords ==
    { [ChargePointState(TRUE) EXCEPT
          !.mode = m,
          !.target_kw = kw,
          !.soc = soc,
          !.current_soc = soc,
          !.boost_enabled = b,
          !.boost_target_soc = t,
          !.boost_reached_notified = n,
          !.tx_active = tx,
          !.session_start_kwh_reg = IF tx THEN Some(0) ELSE None,
          !.session_kwh = IF tx THEN Some(0) ELSE None] :
        m \in Modes, kw \in TickTargets, soc \in TickSocs, b \in BOOLEAN,
        t \in BoostTargetInputs, n \in BOOLEAN, tx \in BOOLEAN }

InitTick ==
    /\ state \in {("cp1" :> r) : r \in TickRecords}
    /\ order = <<"cp1">>
    /\ cps \in {{}, {"cp1"}}
    /\ last_push_kw = [c \in CPs |-> None]
    /\ loop = LoopIdle
    /\ hist = [c \in CPs |->
                 [HistInit EXCEPT
                     !.mails = IF c = "cp1" /\ state["cp1"].boost_reached_notified
                               THEN 1 ELSE 0]]
    /\ last = [op |-> "init", cp |-> "cp1", arg |-> 0, res |-> ""]
    /\ cp_status = <<>>
    /\ api = ApiIdle
    /\ prices_cache = PricesIdle
    /\ energy_logs = [c \in CPs |-> <<>>]
    /\ conns = ConnsIdle

\* a tick is labelled with the signals it read
NoteTick(sig) == last' = [op |-> "Tick", cp |-> "cp1", arg |-> 0, res |-> "", sig |-> sig]

NextTick ==
    /\ \/ \E eco \in EcoKwInputs : \E pr \in PriceInputs : \E now \in NowInputs :
            Tick(eco, pr.cur, pr.med, now) /\ NoteTick(Signal(eco, pr.cur, pr.med, now))
       \/ \E outcome \in PushOutcomes :
            PushReturn(outcome) /\ NoteStep("PushReturn", Val(loop.cur), 0, outcome)
    /\ UNCHANGED <<mainvars, prices_cache, energy_logs, conns>>

SpecTick == InitTick /\ [][NextTick]_vars

-----------------------------------------------------------------------------
(* The computation of a pass: C11, C13 - C17, checked under SpecTick *)

\* C11 (as claimed): in a pass that finds boost_enabled true,
\* boost_reached_notified false and current_soc >= boost_target_soc, exactly
\* one goal-reached notification is scheduled and boost_reached_notified
\* becomes true, in mode eco and in mode price.
C11_GoalReachedNotifiesInEcoAndPrice ==
    [][ \A cp \in LoopCPs :
          (/\ last'.op = "Tick"
           /\ state[cp].mode \in {"eco", "price"}
           /\ state[cp].boost_enabled
           /\ ~state[cp].boost_reached_notified
           /\ IsSome(state[cp].current_soc)
           /\ Val(state[cp].current_soc) >= state[cp].boost_target_soc) =>
              /\ state'[cp].boost_reached_notified
              /\ hist'[cp].mails = hist[cp].mails + 1
      ]_vars

\* neededSoc of the completion estimate: against boost_target_soc in eco mode
\* with boost enabled, against 100 otherwise
NeededSoc(st) ==
    (IF st.mode = "eco" /\ st.boost_enabled THEN st.boost_target_soc ELSE 100)
        - Val(st.current_soc)

\* C13: after a tick session_est_end_at is non-null exactly when tx_active is
\* true, current_soc is known and neededSoc > 0, and then it is the tick time
\* plus (neededSoc/100 * batteryKwh) / (target * efficiency clamped to
\* [0.5, 1.0]) hours, target being the clamped target of the tick (times are in
\* minutes here).
C13_EstimateAfterTick ==
    [][ \A cp \in LoopCPs :
          last'.op = "Tick" =>
            LET st == state[cp]
                est == state'[cp].session_est_end_at
                target == clamp_kw(Target(st, last'.sig))
            IN  /\ IsSome(est) <=>
                      (st.tx_active /\ IsSome(st.current_soc) /\ NeededSoc(st) > 0)
                /\ IsSome(est) =>
                      Val(est) = last'.sig.now
                                 + (NeededSoc(st) * battery_kwh * 60 * 1000)
                                       \div (target * Max(50, Min(100, efficiency)))
      ]_vars

\* a tick has just estimated the end of a transaction in eco mode with boost
\* to 80 % from a SoC of 40 %, and the estimate lies after the tick time
C13_Witness ==
    /\ last.op = "Tick"
    /\ state["cp1"].tx_active
    /\ state["cp1"].mode = "eco" /\ state["cp1"].boost_enabled
    /\ state["cp1"].boost_target_soc = 80
    /\ state["cp1"].current_soc = Some(40)
    /\ IsSome(state["cp1"].session_est_end_at)
    /\ Val(state["cp1"].session_est_end_at) > last.sig.now

\* the price rule: MAX_KW at or below today's median, MIN_KW above it
PriceBase(sig) ==
    IF Val(sig.cur_price) <= Val(sig.median_today) THEN MAX_KW ELSE MIN_KW

\* C14: in price mode with a known current price and a known median the base
\* target is MAX_KW when the current price is at or below the median and MIN_KW
\* otherwise; the deadline-driven power only raises it (with nothing left to
\* charge the target is the base target), and the result lies in
\* [MIN_KW, MAX_KW].
C14_PriceModeBaseOnlyRaised ==
    [][ \A cp \in LoopCPs :
          (/\ last'.op = "Tick"
           /\ state[cp].mode = "price"
           /\ IsSome(last'.sig.cur_price) /\ IsSome(last'.sig.median_today)) =>
              /\ state'[cp].target_kw >= PriceBase(last'.sig)
              /\ state'[cp].target_kw >= MIN_KW /\ state'[cp].target_kw <= MAX_KW
              /\ state[cp].current_soc = Some(100) =>
                     state'[cp].target_kw = PriceBase(last'.sig)
              /\ PriceBase(last'.sig) = MAX_KW => state'[cp].target_kw = MAX_KW
      ]_vars

\* a tick in price mode at a price above the median has raised the target above
\* MIN_KW because of the deadline, and below MAX_KW
C14_Witness ==
    /\ last.op = "Tick"
    /\ state["cp1"].mode = "price"
    /\ IsSome(last.sig.cur_price) /\ IsSome(last.sig.median_today)
    /\ Val(last.sig.cur_price) > Val(last.sig.median_today)
    /\ state["cp1"].target_kw > MIN_KW
    /\ state["cp1"].target_kw < MAX_KW

\* C15 (as claimed): in price mode the deadline-driven minimum power is
\* computed against target SoC 100 % and cutoff 07:00 when boost is disabled,
\* and against boost_target_soc and boost_cutoff_local when boost is enabled.
C15_PriceModeDeadlineUsesBoostValues ==
    [][ \A cp \in LoopCPs :
          (/\ last'.op = "Tick"
           /\ state[cp].mode = "price"
           /\ IsSome(last'.sig.cur_price) /\ IsSome(last'.sig.median_today)) =>
              LET st == state[cp]
                  goal == IF st.boost_enabled THEN st.boost_target_soc ELSE 100
                  cutoff == IF st.boost_enabled THEN st.boost_cutoff_local ELSE 420
                  left == HoursLeft(cutoff, last'.sig.now)
                  need == Max(0, goal - SocNow(st))
                  req == IF need > 0 /\ left > 0
                         THEN (need * battery_kwh * 60 * 1000)
                                  \div (left * Max(50, Min(100, efficiency)))
                         ELSE 0
              IN  state'[cp].target_kw =
                      Round2(clamp_kw(Max(PriceBase(last'.sig), req)))
      ]_vars

\* requiredKw of the boost overlay: (neededSoc/100 * batteryKwh) / hoursRemaining
\* / efficiency, applied only if hoursRemaining > 0 and neededSoc > 0 (in W, the
\* time in minutes, the efficiency in percent)
RequiredKw(st, now) ==
    LET left == Max(0, next_dt(st.boost_cutoff_local, now) - now)
        need == st.boost_target_soc - SocNow(st)
    IN  IF left > 0 /\ need > 0
        THEN (need * battery_kwh * 60 * 1000) \div (left * Max(50, Min(100, efficiency)))
        ELSE 0

\* C16: in eco mode the target before clamping is the eco power when boost is
\* disabled and max(eco power, requiredKw) when boost is enabled, so the stored
\* target is that value clamped and rounded, and it is never below the target
\* the eco power alone gives.
C16_EcoTargetRaisedByBoost ==
    [][ \A cp \in LoopCPs :
          (last'.op = "Tick" /\ state[cp].mode = "eco") =>
              LET st == state[cp]
                  eco == last'.sig.eco_kw
                  raw == IF st.boost_enabled THEN Max(eco, RequiredKw(st, last'.sig.now))
                         ELSE eco
              IN  /\ state'[cp].target_kw = Round2(Max(MIN_KW, Min(MAX_KW, raw)))
                  /\ state'[cp].target_kw >= Round2(Max(MIN_KW, Min(MAX_KW, eco)))
      ]_vars

\* a tick in eco mode with boost enabled has set a target above the eco power
\* and below MAX_KW: the required power of the boost overlay
C16_Witness ==
    /\ last.op = "Tick"
    /\ state["cp1"].mode = "eco" /\ state["cp1"].boost_enabled
    /\ state["cp1"].target_kw > last.sig.eco_kw
    /\ state["cp1"].target_kw < MAX_KW

\* C17 (as claimed): whatever the price, irradiance, SoC and boost settings, a
\* tick sets target_kw to MIN_KW in mode off, to MAX_KW in mode max, and in mode
\* manual to the explicitly set target_kw clamped to [MIN_KW, MAX_KW], unchanged
\* when it is already within the bounds.
C17_FixedModesAsClaimed ==
    [][ \A cp \in LoopCPs :
          last'.op = "Tick" =>
            LET st == state[cp] IN
              /\ st.mode = "off" => state'[cp].target_kw = MIN_KW
              /\ st.mode = "max" => state'[cp].target_kw = MAX_KW
              /\ st.mode = "manual" =>
                    state'[cp].target_kw = Max(MIN_KW, Min(MAX_KW, st.target_kw))
      ]_vars

\* C17 (amended): the same, with the manual target clamped and then rounded to
\* two decimals of a kW (10 W); it is unchanged when it is within the bounds and
\* a multiple of 0.01 kW.
C17_FixedModes ==
    [][ \A cp \in LoopCPs :
          last'.op = "Tick" =>
            LET st == state[cp]
                clamped == Max(MIN_KW, Min(MAX_KW, st.target_kw))
            IN
              /\ st.mode = "off" => state'[cp].target_kw = MIN_KW
              /\ st.mode = "max" => state'[cp].target_kw = MAX_KW
              /\ st.mode = "manual" =>
                    /\ state'[cp].target_kw = ((clamped + 5) \div 10) * 10
                    /\ (st.target_kw = clamped /\ clamped % 10 = 0) =>
                           state'[cp].target_kw = st.target_kw
      ]_vars

\* a tick in manual mode has stored 5.12 kW for the manual target 5.123 kW
C17_Witness ==
    /\ last.op = "Tick"
    /\ state["cp1"].mode = "manual"
    /\ state["cp1"].target_kw = 5120

-----------------------------------------------------------------------------
(* Boost activations over sessions: handlers, boost requests and passes *)

NextBoost ==
    /\ \/ \E cp \in LoopCPs :
            \/ Connect(cp) /\ Note("Other", cp, 0)
            \/ Disconnect(cp) /\ Note("Other", cp, 0)
            \/ on_boot(cp) /\ Note("Other", cp, 0)
            \/ on_start_tx(cp, 0) /\ Note("StartTransaction", cp, 0)
            \/ \E b \in SocBatches : on_meter(cp, b) /\ Note("Other", cp, 0)
            \/ \E m \in {"eco", "price"} : SetMode(cp, m) /\ Note("Other", cp, 0)
            \/ \E en \in BOOLEAN : \E tg \in BoostTargetInputs :
                 /\ SetBoost(cp, en, tg)
                 /\ NoteStep("SetBoost", cp,
                             IF state[cp].boost_reached_notified THEN 1 ELSE 0,
                             IF en THEN "on" ELSE "off")
       \/ \E eco \in EcoKwInputs :
            Tick(eco, None, None, 180) /\ Note("Tick", "cp1", 0)
       \/ \E outcome \in PushOutcomes :
            PushReturn(outcome) /\ Note("Other", Val(loop.cur), 0)
    /\ UNCHANGED <<mainvars, prices_cache, energy_logs, conns>>

SpecBoost == Init /\ [][NextBoost]_vars

-----------------------------------------------------------------------------
(* push_charging_profile as a function of the setpoint and of the record's
   electrical fields *)

\* setpoints in W: below, at and above the limits, and whole-watt values
\* whose quotient is an exact tie in some configuration
ProfileKwInputs ==
    { 0, 3000, 3700, 3795, 3800, 4000, 4020, 4040, 4060, 4140, 4500, 5000,
      5120, 6000, 7350, 8165, 9000, 10000, 10995, 11000, 11500, 12000 }

ProfileRecords ==
    { [ChargePointState(TRUE) EXCEPT
          !.phase_count = c[1],
          !.voltage_per_phase = c[2]] : c \in ProfileConfigs }

InitProfile ==
    /\ state \in {("cp1" :> r) : r \in ProfileRecords}
    /\ order = <<"cp1">>
    /\ cps = {}
    /\ last_push_kw = [c \in CPs |-> None]
    /\ loop = LoopIdle
    /\ hist = [c \in CPs |-> HistInit]
    /\ last = [op |-> "Init", cp |-> "cp1", arg |-> 0, res |-> ""]
    /\ cp_status = <<>>
    /\ api = ApiIdle
    /\ prices_cache = PricesIdle
    /\ energy_logs = [c \in CPs |-> <<>>]
    /\ conns = ConnsIdle

\* CentralSystem.push_charging_profile up to the call: it reads STATE[self.id],
\* builds the request and sends it; no field of the program is written
push_charging_profile(cp, target_kw) ==
    /\ cp \in cps
    /\ Known(cp)
    /\ last' = [op |-> "push_charging_profile", cp |-> cp, arg |-> target_kw,
                res |-> "", req |-> ProfileRequest(state[cp], target_kw)]
    /\ UNCHANGED <<state, order, cps, last_push_kw, loop, hist>>

NextProfile ==
    /\ \E cp \in LoopCPs :
          \/ Connect(cp) /\ Note("Connect", cp, 0)
          \/ Disconnect(cp) /\ Note("Disconnect", cp, 0)
          \/ \E kw \in ProfileKwInputs : push_charging_profile(cp, kw)
    /\ UNCHANGED <<mainvars, prices_cache, energy_logs, conns>>

SpecProfile == InitProfile /\ [][NextProfile]_vars

\* C19: every profile sent carries exactly one schedule period with
\* startPeriod 0 and unit amperes, whose limit is
\* clamp(targetKw, MIN_KW, MAX_KW) * 1000 / (voltage_per_phase * phase_count)
\* rounded to the nearest 0.1 A, ties rounded up, for every setpoint and
\* every configured phase count and voltage.
C19_LimitIsHalfUpOfClampedPower ==
    last.op = "push_charging_profile" =>
        LET st == state[last.cp]
            d  == st.voltage_per_phase * st.phase_count
            kw == Max(MIN_KW, Min(MAX_KW, last.arg))
            L  == last.req.periods[1].limit
        IN  /\ Len(last.req.periods) = 1
            /\ last.req.periods[1].start_period = 0
            /\ last.req.unit = "A"
            /\ 2 * d * L - d <= 20 * kw
            /\ 20 * kw < 2 * d * L + d

-----------------------------------------------------------------------------
(* The query surface: C18 and C20, checked under SpecApi *)

\* C18 (as claimed): every SetChargingProfile issued by the manual set-power and
\* boost operations carries an ampere limit that corresponds to a power within
\* [MIN_KW, MAX_KW], for any requested kW value (api.sent is in 0.1 A).
C18_ApiLimitWithinBounds ==
    IsSome(api.sent) =>
        /\ MIN_KW * 10 <= Val(api.sent) * VOLTAGE * PHASES
        /\ Val(api.sent) * VOLTAGE * PHASES <= MAX_KW * 10

\* C20 (as claimed): push_charging_profile hands a failed push (rejection,
\* timeout or transport error) to its caller as a result, without raising, and
\* the manual set-power operation reports a failed push to its caller as a
\* failure, not as success.
C20_FailedPushIsReportedAsFailure ==
    /\ last.op = "PushReturn" => last.res # "Raise"
    /\ (IsSome(api.sent) /\ api.outcome # "Accepted") => api.reply # "ok"

-----------------------------------------------------------------------------
(* Price signal: the refreshes of the control loop, and the refreshes of the
   price endpoint *)

NextPrice ==
    \E resp \in Responses : \E now \in PriceNows : refresh_prices(resp, now)

SpecPrice == Init /\ [][NextPrice]_vars

ApiResponses ==
    {Response(k, <<>>) : k \in {"timeout", "non200", "badjson", "shape", "list"}}
    \cup {Response("list", d) : d \in [1..1 -> PriceItems] \cup [1..2 -> PriceItems]}

NextPriceApi ==
    \E resp \in ApiResponses : \E now \in PriceNows : api_price(resp, now)

SpecPriceApi == Init /\ [][NextPriceApi]_vars

\* the starts of a sequence of slots or items do not decrease
TimeOrdered(starts) == \A i \in 1..(Len(starts) - 1) : starts[i] <= starts[i + 1]

\* the price of the last entry whose start is <= now, None without such an entry
LastStarted(starts, prices, now) ==
    LET idx == {i \in 1..Len(starts) : starts[i] <= now}
    IN  IF idx = {} THEN None
        ELSE Some(prices[CHOOSE i \in idx : \A j \in idx : j <= i])

\* C21: for a time-ordered price series, the current price computed at a
\* refresh is the price of the last slot whose start time is <= now, and it is
\* None when the series is empty or every slot starts in the future; both for
\* the refresh of the control loop and for the refresh of the price endpoint.
C21_CurrentIsLastStartedSlot ==
    /\ IsSome(prices_cache.ts) =>
          LET sr == prices_cache.series
              starts == [i \in 1..Len(sr) |-> sr[i][1]]
          IN  TimeOrdered(starts) =>
                 prices_cache.cur = LastStarted(starts, PricesOf(sr), Val(prices_cache.ts))
    /\ (api.op = "price" /\ api.reply = "ok") =>
          LET starts == [i \in 1..Len(api.series) |-> api.series[i].start]
              prices == [i \in 1..Len(api.series) |-> api.series[i].ct_per_kwh]
          IN  TimeOrdered(starts) => api.current = LastStarted(starts, prices, api.now)

\* the median of a non-empty bag of numbers given as a sequence: a value with
\* at most half of the entries strictly below and at most half strictly above
\* it, the mean of the two middle entries for an even count
StandardMedian(vals) ==
    LET n == Len(vals)
        Below(x) == Cardinality({i \in 1..n : vals[i] < x})
        AtMost(x) == Cardinality({i \in 1..n : vals[i] <= x})
        \* the k-th smallest entry
        Kth(k) == CHOOSE x \in Range(vals) : Below(x) < k /\ k <= AtMost(x)
    IN  IF n % 2 = 1 THEN Kth(n \div 2 + 1)
        ELSE (Kth(n \div 2) + Kth(n \div 2 + 1)) \div 2

\* C22: the reference price is the standard median over exactly the slots whose
\* local calendar date equals today's local date, and it is None when there
\* are no such slots; both for the control loop and for the price endpoint.
C22_MedianOverTodaysSlots ==
    /\ IsSome(prices_cache.ts) =>
          LET today == PricesOf(SelectSeq(prices_cache.series,
                          LAMBDA p : LocalDate(p[1]) = LocalDate(Val(prices_cache.ts))))
          IN  prices_cache.median =
                 IF today = <<>> THEN None ELSE Some(StandardMedian(today))
    /\ (api.op = "price" /\ api.reply = "ok") =>
          LET its == SelectSeq(api.series,
                          LAMBDA it : LocalDate(it.start) = LocalDate(api.now))
              today == [i \in 1..Len(its) |-> its[i].ct_per_kwh]
          IN  api.median = IF today = <<>> THEN None ELSE Some(StandardMedian(today))

\* the slots of the items of a payload that parse, whatever the other items are
RECURSIVE GoodSlots(_, _)
GoodSlots(data, i) ==
    IF i > Len(data) THEN {}
    ELSE GoodSlots(data, i + 1) \cup
         (IF ItemParses(data[i])
          THEN {<<t, CtPerKwh(Val(data[i].marketprice))>> :
                   t \in {u \in Val(data[i].start_timestamp)..(Val(data[i].end_timestamp) - 1) :
                             (u - Val(data[i].start_timestamp)) % Quarter = 0}}
          ELSE {})

\* C23: fetch_prices_ct_per_kwh never raises; on timeout, non-200 response,
\* malformed JSON or an unexpected payload shape it returns an empty series,
\* and a malformed item is skipped without discarding the other items (every
\* slot of a well-formed item that lies in the window is returned).
C23_FetchNeverRaises ==
    last.op = "refresh_prices" =>
        /\ last.res # "raised"
        /\ last.resp.kind # "list" => last.series = <<>>
        /\ last.resp.kind = "list" =>
              \A p \in GoodSlots(last.resp.data, 1) :
                  (last.arg - Window <= p[1] /\ p[1] <= last.arg + Window)
                      => p \in Range(last.series)

-----------------------------------------------------------------------------
(* eco_kw_from_radiation as a function of the irradiance and of the eco
   configuration *)

\* avg_wm2 in W/m2, in steps of 25 from 0
RadInputs == {25 * k : k \in 0..MaxRadStep}

\* app.state.eco as set_eco_config can store it: each bound within 0..22 kW,
\* in either order
EcoConfigInputs ==
    { [sunny_kw |-> 11000, cloudy_kw |-> 3700], [sunny_kw |-> 22000, cloudy_kw |-> 0],
      [sunny_kw |-> 3700, cloudy_kw |-> 11000], [sunny_kw |-> 5000, cloudy_kw |-> 5000] }

\* line 200 of a tick, before the clamp: the interpolation is evaluated
eco_step(avg_wm2, cfg) ==
    /\ loop.pc = "sleep"
    /\ last' = [op |-> "eco_kw_from_radiation", cp |-> "cp1", arg |-> avg_wm2,
                res |-> "", cfg |-> cfg,
                kw |-> eco_kw_from_radiation(avg_wm2, cfg.sunny_kw, cfg.cloudy_kw)]
    /\ UNCHANGED <<state, order, cps, last_push_kw, loop, hist, mainvars, prices_cache, energy_logs, conns>>

NextEco == \E avg \in RadInputs : \E cfg \in EcoConfigInputs : eco_step(avg, cfg)

SpecEco == Init /\ [][NextEco]_vars

\* C25: eco_kw_from_radiation returns cloudy_kw for irradiance at or below
\* 200 W/m2, sunny_kw at or above 650 W/m2 and the linear interpolation in
\* between (to the watt; the midpoint 425 gives the mean of the two bounds);
\* for every irradiance the result lies between cloudy_kw and sunny_kw.
C25_EcoInterpolation ==
    last.op = "eco_kw_from_radiation" =>
        LET avg == last.arg
            c == last.cfg.cloudy_kw
            sn == last.cfg.sunny_kw
            kw == last.kw
        IN  /\ avg <= 200 => kw = c
            /\ avg >= 650 => kw = sn
            /\ (200 < avg /\ avg < 650) =>
                  Abs(450 * (kw - c) - (avg - 200) * (sn - c)) < 450
            /\ avg = 425 => 2 * kw = c + sn
            /\ Min(c, sn) <= kw /\ kw <= Max(c, sn)

\* the midpoint with the default configuration: 7.35 kW
C25_Witness ==
    /\ last.op = "eco_kw_from_radiation"
    /\ last.arg = 425
    /\ last.cfg = [sunny_kw |-> 11000, cloudy_kw |-> 3700]
    /\ last.kw = 7350

-----------------------------------------------------------------------------
(* MeterValues batches with malformed samples, on a charge point in a
   transaction *)

MeterSamples ==
    { Sample("Energy.Active.Import.Register", "Wh", Some(500)),
      Sample("Energy.Active.Import.Register", "Wh", Some(1000)),
      Sample("SoC", "Percent", Some(40)),
      Sample("SoC", "Percent", Some(80)),
      Sample("SoC", "Percent", None),
      Sample(NotAString, "Wh", Some(1)),
      Sample("SoC", NotAString, Some(1)) }

MeterBatches == [1..1 -> MeterSamples] \cup [1..2 -> MeterSamples]

NextMeter ==
    /\ \E cp \in SessionCPs :
          \/ Connect(cp) /\ Note("Connect", cp, 0)
          \/ on_boot(cp) /\ Note("BootNotification", cp, 0)
          \/ on_start_tx(cp, 0) /\ Note("StartTransaction", cp, 0)
          \/ \E b \in MeterBatches :
                /\ on_meter(cp, b)
                /\ last' = [op |-> "MeterValues", cp |-> cp, arg |-> 0, res |-> "ack",
                            batch |-> b]
    /\ UNCHANGED <<mainvars, prices_cache, energy_logs, conns>>

SpecMeter == Init /\ [][NextMeter]_vars

\* sample i of batch b is well-formed: its value is a number, its measurand
\* and unit are strings
WellFormed(sv) == IsSome(sv.value) /\ ~SampleRaises(sv)

\* the last well-formed sample of b of the given measurand, None without one
LastOf(b, meas) ==
    LET idx == {i \in 1..Len(b) : WellFormed(b[i]) /\ b[i].measurand = meas}
    IN  IF idx = {} THEN None
        ELSE Some(Val(b[CHOOSE i \in idx : \A j \in idx : j <= i].value))

\* C28: in a MeterValues batch a sample with a malformed or missing value,
\* measurand or unit is skipped and every other sample is still applied (the
\* record holds the last well-formed SoC and energy reading of the batch, and
\* session_kwh follows the register); the handler replies with the
\* acknowledgement.
C28_MalformedSampleIsSkipped ==
    (last.op = "MeterValues" /\ Known(last.cp)) =>
        LET st == state[last.cp]
            soc == LastOf(last.batch, "SoC")
            reg == LastOf(last.batch, "Energy.Active.Import.Register")
        IN  /\ last.res = "ack"
            /\ IsSome(soc) => st.soc = soc /\ st.current_soc = soc
            /\ IsSome(reg) => st.energy_kwh_total = reg
            /\ (IsSome(reg) /\ st.tx_active /\ IsSome(st.session_start_kwh_reg)) =>
                  st.session_kwh = Some(Max(0, Val(reg) - Val(st.session_start_kwh_reg)))

-----------------------------------------------------------------------------
(* StatusNotification: C27, checked under SpecSession *)

\* C27: a StatusNotification stores the reported status in a normalized form
\* that is the same for all case and separator variants of one status, and sets
\* tx_active whenever the reported status is a charging status in any variant;
\* it does so for every charge point that has made contact, whether or not a
\* BootNotification preceded it (the notification finds a record to store in).
C27_StatusStoredNormalized ==
    \A cp \in SessionCPs :
        /\ (last.op = "StatusNotification" /\ last.cp = cp) => Known(cp)
        /\ (Known(cp) /\ IsSome(state[cp].cp_status)) =>
              Val(state[cp].cp_status) = normalize_status(Val(state[cp].cp_status))
        /\ (Known(cp) /\ last.op = "StatusNotification" /\ last.cp = cp
              /\ normalize_status(Val(state[cp].cp_status)) = "charging") =>
              state[cp].tx_active

-----------------------------------------------------------------------------
(* Connections of one charge point: opened, served, closed and opened again *)

NextConn ==
    \E cp \in SessionCPs :
        \/ /\ ocpp_ws_open(cp) /\ Note("Connect", cp, 0)
           /\ UNCHANGED <<api, prices_cache, energy_logs, conns>>
        \/ /\ ocpp_ws_close(cp) /\ Note("Disconnect", cp, 0)
           /\ UNCHANGED <<api, prices_cache, energy_logs, conns>>
        \/ /\ main_on_boot(cp)
           /\ NoteStep("BootNotification", cp, 0,
                       IF StatusOf(cp_status, cp).status = Some("disconnected")
                       THEN "reconnected" ELSE "")
        \/ \E status \in MainStatusVals :
              main_on_status(cp, status, "NoError") /\ Note("StatusNotification", cp, 0)
        \/ on_start_transaction(cp, 500) /\ Note("StartTransaction", cp, 500)
        \/ \E b \in MainBatches : on_meter_values(cp, b) /\ Note("MeterValues", cp, 0)
        \/ on_stop_transaction(cp, 1500) /\ Note("StopTransaction", cp, 1500)
        \/ /\ on_boot(cp) /\ Note("BootNotification", cp, 1)
           /\ UNCHANGED <<mainvars, prices_cache, energy_logs, conns>>
        \/ /\ on_start_tx(cp, 500) /\ Note("StartTransaction", cp, 1)
           /\ UNCHANGED <<mainvars, prices_cache, energy_logs, conns>>
        \/ /\ \E b \in SocBatches : on_meter(cp, b)
           /\ Note("MeterValues", cp, 1)
           /\ UNCHANGED <<mainvars, prices_cache, energy_logs, conns>>

SpecConn == Init /\ [][NextConn]_vars

\* the session data of a charge point in cp_status and in models.STATE
MainSession(S, cp) ==
    LET st == StatusOf(S, cp)
    IN  <<st.tx_active, st.start_meter_wh, st.energy_kwh_session, st.soc>>

StateSession(S, cp) ==
    LET st == IF cp \in DOMAIN S THEN S[cp] ELSE ChargePointState(TRUE)
    IN  <<st.tx_active, st.session_start_kwh_reg, st.session_kwh, st.soc, st.current_soc>>

\* C26: when a charge point's connection ends, the charge point is marked
\* disconnected and its handler is released from the registry, while its
\* session data (transaction flag, session start register, session energy,
\* SoC) is left unchanged; the reconnect under the same identifier and the
\* BootNotification that follows leave it unchanged too.
C26_DisconnectKeepsSessionData ==
    [][ \A cp \in SessionCPs :
          /\ (last'.op = "Disconnect" /\ last'.cp = cp) =>
                /\ cp \notin cps'
                /\ StatusOf(cp_status', cp).status = Some("disconnected")
          /\ (last'.op \in {"Disconnect", "Connect", "BootNotification"} /\ last'.cp = cp) =>
                /\ MainSession(cp_status', cp) = MainSession(cp_status, cp)
                /\ StateSession(state', cp) = StateSession(state, cp) ]_vars

\* a charge point that was disconnected in a transaction has reconnected and
\* booted; the session data is still there
C26_Witness ==
    /\ last.op = "BootNotification" /\ last.res = "reconnected"
    /\ "cp1" \in cps
    /\ StatusOf(cp_status, "cp1").tx_active = Some(TRUE)
    /\ StatusOf(cp_status, "cp1").start_meter_wh = Some(500)
    /\ StatusOf(cp_status, "cp1").energy_kwh_session = Some(500)
    /\ StatusOf(cp_status, "cp1").soc = Some(80)

-----------------------------------------------------------------------------
(* The control loop over several charge points: two have a record, a third
   one registers its record at any time *)

FleetRecords ==
    { [ChargePointState(TRUE) EXCEPT !.mode = m] : m \in {"price", "eco"} }

InitFleet ==
    /\ state \in {("cp1" :> r1) @@ ("cp2" :> r2) :
                      r1 \in {r \in FleetRecords : r.mode = "price"},
                      r2 \in {r \in FleetRecords : r.mode = "eco"}}
    /\ order = <<"cp1", "cp2">>
    /\ cps = CPs
    /\ last_push_kw = [c \in CPs |-> None]
    /\ loop = LoopIdle
    /\ hist = [c \in CPs |-> HistInit]
    /\ last = [op |-> "init", cp |-> "cp1", arg |-> 0, res |-> "",
               started |-> {}, ran |-> {}, rad |-> None, resp |-> None]
    /\ cp_status = <<>>
    /\ api = ApiIdle
    /\ prices_cache = PricesIdle
    /\ energy_logs = [c \in CPs |-> <<>>]
    /\ conns = ConnsIdle

\* the irradiance of a tick (None: the fetch failed) and its price response: no
\* refresh due (None), a failed fetch, a payload whose expansion raises
FleetRadiation == {None, Some(900)}

FleetResponses ==
    { None, Some(Response("timeout", <<>>)), Some(Response("list", <<ItemLate>>)) }

FleetNow == 1275

\* how the tick in progress goes on: "push" while it awaits a push, "end" when
\* the for loop has ended ("caught" when an exception has ended the tick)
Progress(l) == IF l.pc = "push" THEN "push" ELSE "end"

\* started: the keys of STATE when the tick started; ran: the charge points
\* whose record the tick has computed so far
TickRaises(resp) ==
    resp # None /\ fetch_prices_ct_per_kwh(Val(resp), FleetNow).raised

FleetBoot ==
    /\ on_boot("cp3")
    /\ last' = [last EXCEPT !.op = "BootNotification", !.cp = "cp3", !.res = ""]
    /\ UNCHANGED <<mainvars, prices_cache, energy_logs, conns>>

FleetStartTx ==
    /\ on_start_tx("cp3", 0)
    /\ last' = [last EXCEPT !.op = "StartTransaction", !.cp = "cp3", !.res = ""]
    /\ UNCHANGED <<mainvars, prices_cache, energy_logs, conns>>

\* an iteration of `while True` up to its first await inside the for loop
FleetTick ==
    \E rad \in FleetRadiation : \E resp \in FleetResponses :
        /\ control_tick(rad, resp, FleetNow)
        /\ last' = [op |-> "Tick", cp |-> "cp1", arg |-> 0,
                    res |-> IF TickRaises(resp) THEN "caught" ELSE Progress(loop'),
                    started |-> Range(order),
                    ran |-> IF TickRaises(resp) THEN {}
                            ELSE Range(order) \ Range(loop'.todo),
                    rad |-> rad, resp |-> resp]
        /\ UNCHANGED mainvars

FleetPushReturn ==
    \E outcome \in {"Accepted", "Raise"} :
        /\ PushReturn(outcome)
        /\ last' = [last EXCEPT
                       !.op = "PushReturn", !.cp = Val(loop.cur),
                       !.res = IF Len(order) # loop.size THEN "caught"
                               ELSE Progress(loop'),
                       !.ran = IF Len(order) # loop.size THEN @
                               ELSE Range(order) \ Range(loop'.todo)]
        /\ UNCHANGED <<mainvars, prices_cache, energy_logs, conns>>

NextFleet == FleetBoot \/ FleetStartTx \/ FleetTick \/ FleetPushReturn

SpecFleet == InitFleet /\ [][NextFleet]_vars

\* The loop's awaits all return: asyncio.sleep, the provider fetches (httpx
\* timeouts) and the OCPP call (answer, or the response timeout as an exception).
SpecFleetLive ==
    InitFleet /\ [][NextFleet]_vars /\ WF_vars(FleetTick) /\ WF_vars(FleetPushReturn)

\* a tick has ended: its for loop has run out of keys, or an exception has
\* taken it to the handler of line 292
TickEnded == last.op \in {"Tick", "PushReturn"} /\ last.res \in {"end", "caught"}

\* C29: every charge point in the session-state map when a tick starts has its
\* target recomputed in that tick; neither a failed push for one charge point
\* nor a charge point registering while the tick awaits a push lets another one
\* be skipped.
C29_NoChargePointSkipped ==
    (TickEnded /\ last.op = "PushReturn") => last.started \subseteq last.ran

\* a provider has failed in the tick: no irradiance, or no price response
ProviderFailed ==
    last.rad = None \/ last.resp = Some(Response("timeout", <<>>))

\* C24: when a provider fails during a tick, the tick still computes a target
\* for every charge point: with an empty price series a price-mode charge point
\* gets MIN_KW, with a failed irradiance fetch an eco-mode charge point gets
\* the clamped cloudy_kw.
C24_FallbackTargets ==
    (TickEnded /\ ProviderFailed) =>
        \A cp \in last.started :
            /\ cp \in last.ran
            /\ (state[cp].mode = "price" /\ prices_cache.series = <<>>)
                   => state[cp].target_kw = MIN_KW
            /\ (state[cp].mode = "eco" /\ last.rad = None)
                   => state[cp].target_kw = clamp_kw(EcoDefault.cloudy_kw)

\* C30: the control loop never terminates: whatever exception a tick raises
\* (provider error, push error, error while iterating the state map) is caught
\* inside the loop, and a further tick eventually starts.
C30_LoopNeverTerminates == []<><<FleetTick>>_vars

\* an exception has ended a tick in the handler of line 292
C30_Witness == TickEnded /\ last.res = "caught" /\ loop.pc = "sleep"

-----------------------------------------------------------------------------
(* The OCPP handlers of ocpp_cs.py interleaved with the control loop: a handler
   runs while the loop sleeps or awaits the answer to a push. *)

MixCPs == {"cp1"}

\* a second charge point, registered by its first StartTransaction
MixOthers == {"cp2"}

\* eco_kw of the ticks: the cloudy fallback and full sun, default ECO_CONFIG
MixEco == {EcoKw(rad, EcoDefault) : rad \in {None, Some(900)}}

NextMix ==
    /\ \/ \E cp \in MixCPs :
            \/ Connect(cp) /\ Note("Connect", cp, 0)
            \/ on_boot(cp) /\ Note("BootNotification", cp, 0)
            \/ on_heartbeat(cp) /\ Note("Heartbeat", cp, 0)
            \/ on_status(cp, "Charging") /\ Note("StatusNotification", cp, 0)
            \/ on_start_tx(cp, 0) /\ Note("StartTransaction", cp, 0)
            \/ on_stop_tx(cp, 500) /\ Note("StopTransaction", cp, 500)
            \/ \E b \in SocBatches : on_meter(cp, b) /\ Note("MeterValues", cp, 0)
       \/ \E cp \in MixOthers :
            \/ Connect(cp) /\ Note("Connect", cp, 0)
            \/ ~Known(cp) /\ on_start_tx(cp, 0) /\ Note("StartTransaction", cp, 0)
            \/ on_meter(cp, <<Sample("SoC", "Percent", Some(40))>>)
                  /\ Note("MeterValues", cp, 0)
       \/ \E eco \in MixEco : Tick(eco, None, None, 180) /\ Note("Tick", "cp1", 0)
       \/ \E outcome \in {"Accepted", "Raise"} :
            PushReturn(outcome) /\ NoteStep("PushReturn", Val(loop.cur), 0, outcome)
    /\ UNCHANGED <<mainvars, prices_cache, energy_logs, conns>>

SpecMix == Init /\ [][NextMix]_vars

\* who made the step
HandlerOps ==
    {"BootNotification", "Heartbeat", "StatusNotification", "StartTransaction",
     "StopTransaction", "MeterValues"}
LoopOps == {"Tick", "PushReturn"}

\* the fields of the claim: connection, status, telemetry, transaction / the loop's
HandlerFields ==
    {"connected", "cp_status", "error_code", "soc", "current_soc",
     "energy_kwh_total", "tx_active", "session_start_kwh_reg", "session_kwh"}
LoopFields == {"target_kw", "session_est_end_at", "boost_reached_notified"}

\* the fields of an existing record whose value the step changes
Written(cp) == {f \in DOMAIN state[cp] : state'[cp][f] # state[cp][f]}

\* C31: the OCPP handlers write only connection, status, telemetry and
\* transaction fields of a session record, the control loop writes only
\* target_kw, session_est_end_at and boost_reached_notified; no field is
\* written by both.
C31_DisjointWrites ==
    [][\A cp \in DOMAIN state :
          /\ last'.op \in HandlerOps => Written(cp) \subseteq HandlerFields
          /\ last'.op \in LoopOps => Written(cp) \subseteq LoopFields]_vars

\* C31 (amended): as above, except that StopTransaction also resets
\* session_est_end_at to null; target_kw and boost_reached_notified are written
\* by the control loop only.
C31_DisjointButEstimateReset ==
    [][\A cp \in DOMAIN state :
          /\ last'.op \in HandlerOps =>
                Written(cp) \subseteq
                    HandlerFields
                    \cup (IF last'.op = "StopTransaction"
                             /\ state'[cp].session_est_end_at = None
                          THEN {"session_est_end_at"} ELSE {})
          /\ last'.op \in LoopOps => Written(cp) \subseteq LoopFields]_vars

\* a StopTransaction has ended a transaction on a record the loop has computed
C31_Witness ==
    /\ last.op = "StopTransaction"
    /\ Known(last.cp)
    /\ ~state[last.cp].tx_active
    /\ state[last.cp].target_kw > 0
    /\ IsSome(state[last.cp].current_soc)

\* C34: session_est_end_at is non-null only if tx_active is true, in every
\* reachable state of any interleaving of handlers and ticks.
C34_EstimateOnlyInTransaction ==
    \A cp \in DOMAIN state :
        IsSome(state[cp].session_est_end_at) => state[cp].tx_active

\* a tick has left an estimate on a record with an active transaction
C34_Witness ==
    \E cp \in DOMAIN state :
        /\ IsSome(state[cp].session_est_end_at)
        /\ state[cp].tx_active
        /\ loop.pc = "push"

-----------------------------------------------------------------------------
(* scheduler.py: the deadline of a tick.  The tick reads the clock at line 191
   (now_local); next_dt reads it again (line 72) when the body of a record
   runs, after the awaits of the provider fetches and of earlier pushes. *)

\* cutoffs HH:MM, in minutes of the day: 07:00, 00:00, 23:59
Cutoffs == {420, 0, 1439}

\* local times of day of the tick's clock read, in minutes: the full hours,
\* the last minute of the day and the minute before each cutoff
DayMinutes == {60 * k : k \in 0..23} \cup {1439} \cup {h - 1 : h \in Cutoffs \ {0}}

\* next_dt called at the instant now2 (minutes since today's midnight, which
\* may lie on the next day)
next_dt_at(hhmm, now2) == (now2 \div 1440) * 1440 + next_dt(hhmm, now2 % 1440)

\* lines 228-229 and 241-242: hours_left, in minutes
hours_left(hhmm, now_local, now2) == Max(0, next_dt_at(hhmm, now2) - now_local)

deadline_step(hhmm, now_local, delay) ==
    /\ loop.pc = "sleep"
    /\ last' = [op |-> "next_dt", cp |-> "cp1", arg |-> now_local, res |-> "",
                hhmm |-> hhmm, delay |-> delay,
                cutoff |-> next_dt_at(hhmm, now_local + delay),
                left |-> hours_left(hhmm, now_local, now_local + delay)]
    /\ UNCHANGED <<state, order, cps, last_push_kw, loop, hist, mainvars, prices_cache, energy_logs, conns>>

NextDeadline ==
    \E hhmm \in Cutoffs : \E now_local \in DayMinutes : \E delay \in 0..MaxDelay :
        deadline_step(hhmm, now_local, delay)

SpecDeadline == Init /\ [][NextDeadline]_vars

\* the next occurrence of hhmm after now, both on today's axis
NextOccurrence(hhmm, now) == IF hhmm > now THEN hhmm ELSE hhmm + 1440

\* C32: the deadline used is the next occurrence of HH:MM after the current
\* local time, today if still ahead, else tomorrow (also at exactly HH:MM), so
\* hoursRemaining is greater than 0 and at most 24; for 07:00 it is 1 at 06:00
\* and 23 at 08:00.
C32_NextOccurrence ==
    last.op = "next_dt" =>
        /\ last.cutoff = NextOccurrence(last.hhmm, last.arg)
        /\ 0 < last.left /\ last.left <= 1440
        /\ (last.hhmm = 420 /\ last.arg = 360) => last.left = 60
        /\ (last.hhmm = 420 /\ last.arg = 480) => last.left = 1380

-----------------------------------------------------------------------------
(* ocpp_cs.py: on_meter with the energy log (lines 180-185) *)

\* len(logs) > 5000, logs[-4000:]
LOG_CAP == 5000
LOG_KEEP == 4000

\* messages that report an energy register, over a run
MaxReports == 5002

\* a malformed message is met among the first MaxEarly reports only
MaxEarly == 2

LogPrune(logs) ==
    IF Len(logs) > LOG_CAP
    THEN SubSeq(logs, Len(logs) - LOG_KEEP + 1, Len(logs))
    ELSE logs

\* the whole handler: the record as on_meter leaves it, and the log; ts is the
\* timestamp of the message
on_meter_logged(cp, batch, ts) ==
    /\ on_meter(cp, batch)
    /\ LET p == ParseBatch(batch)
       IN  energy_logs' =
              IF Known(cp) /\ IsSome(p.energy_kwh)
              THEN [energy_logs EXCEPT
                       ![cp] = LogPrune(Append(@, <<ts, Val(p.energy_kwh)>>))]
              ELSE energy_logs

\* a message with an energy register of 500 Wh, and the same message with a
\* sample whose unit is a number
EnergyBatch == <<Sample("Energy.Active.Import.Register", "Wh", Some(500))>>
MalformedBatch == EnergyBatch \o <<Sample("SoC", NotAString, Some(80))>>

InitLog ==
    /\ state = ("cp1" :> ChargePointState(TRUE))
    /\ order = <<"cp1">>
    /\ cps = {"cp1"}
    /\ last_push_kw = [c \in CPs |-> None]
    /\ loop = LoopIdle
    /\ hist = [c \in CPs |-> HistInit]
    /\ last = [op |-> "init", cp |-> "cp1", arg |-> 0, res |-> ""]
    /\ cp_status = <<>>
    /\ api = ApiIdle
    /\ prices_cache = PricesIdle
    /\ energy_logs = [c \in CPs |-> <<>>]
    /\ conns = ConnsIdle

\* last.arg counts the reports; the message of report n carries timestamp n
NextLog ==
    /\ last.arg < MaxReports
    /\ \/ on_meter_logged("cp1", EnergyBatch, last.arg + 1)
             /\ NoteStep("MeterValues", "cp1", last.arg + 1, "")
       \/ /\ last.arg < MaxEarly
          /\ on_meter_logged("cp1", MalformedBatch, last.arg + 1)
          /\ NoteStep("MeterValues", "cp1", last.arg + 1, "malformed")
    /\ UNCHANGED <<mainvars, prices_cache, conns>>

SpecLog == InitLog /\ [][NextLog]_vars

\* the last n of the reported (timestamp, register) values, <<i, 500>> for
\* report i, after total reports
LastReported(n, total) == [j \in 1..n |-> <<total - n + j, 500>>]

\* C33: the energy log never holds more than 5000 entries and is always a
\* suffix of the sequence of all reported (timestamp, register) values in
\* receipt order: entries are appended at the end, pruning removes the oldest.
C33_LogIsCappedSuffix ==
    LET log == energy_logs["cp1"]
    IN  /\ Len(log) <= LOG_CAP
        /\ log = LastReported(Len(log), last.arg)

-----------------------------------------------------------------------------
(* main.py: ocpp_ws with several connections for one identifier.  Every
   accepted websocket runs its own task with its own CentralSystem object;
   cp_registry and cp_status are keyed by the identifier alone. *)

\* lines 345-355: accept, register the new handler object, keep or create the
\* status dict (setdefault keeps a status that is already there)
ocpp_ws_accept(cp) ==
    /\ conns.count[cp] < MaxConns
    /\ LET n == conns.count[cp] + 1
       IN  conns' = [ reg   |-> [conns.reg EXCEPT ![cp] = Some(n)],
                      tasks |-> conns.tasks \cup {<<cp, n>>},
                      count |-> [conns.count EXCEPT ![cp] = n] ]
    /\ cps' = cps \cup {cp}
    /\ cp_status' = StatusPut(cp_status, cp,
           [StatusOf(cp_status, cp) EXCEPT
               !.status = IF @ = None THEN Some("unknown") ELSE @])
    /\ UNCHANGED <<state, order, last_push_kw, loop, hist, api, prices_cache,
                   energy_logs>>

\* lines 363-372: cp.start() of connection n has ended; the finally block pops
\* the registry entry of the identifier and marks the charge point
ocpp_ws_finally(cp, n) ==
    /\ <<cp, n>> \in conns.tasks
    /\ conns' = [conns EXCEPT !.reg[cp] = None, !.tasks = @ \ {<<cp, n>>}]
    /\ cps' = cps \ {cp}
    /\ cp_status' = StatusPut(cp_status, cp, Closed(StatusOf(cp_status, cp)))
    /\ UNCHANGED <<state, order, last_push_kw, loop, hist, api, prices_cache,
                   energy_logs>>

\* a BootNotification arrives on the running connection n
ws_on_boot(cp, n) ==
    /\ <<cp, n>> \in conns.tasks
    /\ cp_status' = StatusPut(cp_status, cp,
           [StatusOf(cp_status, cp) EXCEPT !.status = Some("available")])
    /\ UNCHANGED <<state, order, cps, last_push_kw, loop, hist, api, prices_cache,
                   energy_logs, conns>>

\* a StatusNotification arrives on the running connection n
ws_on_status(cp, n, status) ==
    /\ <<cp, n>> \in conns.tasks
    /\ cp_status' = StatusPut(cp_status, cp,
           [StatusOf(cp_status, cp) EXCEPT
               !.status = Some(normalize_status(status)),
               !.error_code = Some("NoError")])
    /\ UNCHANGED <<state, order, cps, last_push_kw, loop, hist, api, prices_cache,
                   energy_logs, conns>>

NextReconn ==
    \E cp \in {"cp1", "cp2"} :
        \/ ocpp_ws_accept(cp) /\ Note("Connect", cp, conns.count[cp] + 1)
        \/ \E n \in 1..MaxConns :
              \/ ocpp_ws_finally(cp, n) /\ Note("Disconnect", cp, n)
              \/ ws_on_boot(cp, n) /\ Note("BootNotification", cp, n)
              \/ ws_on_status(cp, n, "Charging") /\ Note("StatusNotification", cp, n)

SpecReconn == Init /\ [][NextReconn]_vars

\* C35: while the serving task of the most recently accepted connection of an
\* identifier is running, the registry maps the identifier to this connection's
\* handler and the status is not "disconnected"; the teardown of an older
\* connection of the same identifier does not remove the new handler or mark
\* the charge point disconnected.
C35_LatestConnectionRegistered ==
    \A cp \in CPs :
        LET n == conns.count[cp]
        IN  <<cp, n>> \in conns.tasks =>
               /\ conns.reg[cp] = Some(n)
               /\ StatusOf(cp_status, cp).status # Some("disconnected")

-----------------------------------------------------------------------------
(* Setpoint delivery across reconnects: main.py registers a new handler object
   for every accepted connection, control_loop keeps last_push_kw per
   identifier for as long as it runs *)

\* ocpp_ws lines 348-350: a new CentralSystem object is registered; no setpoint
\* has been delivered to it (acked restarts with every handler)
ConnectNew(cp) ==
    /\ cp \notin cps
    /\ cps' = cps \cup {cp}
    /\ hist' = [hist EXCEPT ![cp].acked = None]
    /\ UNCHANGED <<state, order, last_push_kw, loop>>

\* the answers of a charge point that accepts every profile it receives
RepushOutcomes == {"Accepted", "Raise"}

NextRepush ==
    /\ \/ \E cp \in LoopCPs :
           \/ ConnectNew(cp) /\ Note("Connect", cp, 0)
           \/ Disconnect(cp) /\ Note("Disconnect", cp, 0)
           \/ on_boot(cp) /\ Note("BootNotification", cp, 0)
           \/ on_start_tx(cp, 0) /\ Note("StartTransaction", cp, 0)
           \/ \E b \in SocBatches : on_meter(cp, b) /\ Note("MeterValues", cp, 0)
       \/ \E eco \in MixEco : Tick(eco, None, None, 180) /\ Note("Tick", "cp1", 0)
       \/ \E outcome \in RepushOutcomes :
           PushReturnObserved(outcome) /\ NoteStep("PushReturn", Val(loop.cur), 0, outcome)
    /\ UNCHANGED <<mainvars, prices_cache, energy_logs, conns>>

SpecRepush == Init /\ [][NextRepush]_vars

\* C36: at the end of every control-loop tick in which a handler is registered
\* for a charge point and no push to it failed, the setpoint most recently
\* delivered to the currently registered handler is within the deadband of the
\* record's target_kw; a handler registered after a reconnect is sent the
\* current target on the next tick even if the target has not changed.
C36_RegisteredHandlerHasTarget ==
    (last.op \in {"Tick", "PushReturn"} /\ loop.pc = "sleep") =>
        \A cp \in LoopCPs :
            (Known(cp) /\ cp \in cps /\ ~hist[cp].failed) =>
                /\ hist[cp].acked # None
                /\ Abs(state[cp].target_kw - Val(hist[cp].acked)) < PUSH_DEADBAND_KW

====
